---------------------------- MODULE Spec2Model ----------------------------
(***************************************************************************)
(* A model of the Proof-of-History sequencer (entry/src/poh.rs), of the   *)
(* slot-retention compaction filter and of the opening of the ledger      *)
(* store, its creation and destruction (ledger/src/blockstore_db.rs,       *)
(* ledger/src/blockstore.rs).                                              *)
(***************************************************************************)
EXTENDS Integers, Sequences, FiniteSets, TLC

VARIABLES
    poh,            \* Option<Poh>: <<>> when construction panicked, <<p>> otherwise
    poh_status,     \* "ok" | "panicked"
    poh_arg,        \* the arguments new_with_slot_info was called with
    poh_last,       \* the last call on the sequencer: op, arg, ret, pre
    poh_entries,    \* every PohEntry returned so far, oldest first
    oldest_slot,    \* Rocks.oldest_slot: the shared OldestSlot cursor
    cursor_hist,    \* every value the cursor has held, oldest first
    creating,       \* a PurgedSlotFilterFactory::create call between its two loads
    filters,        \* the PurgedSlotFilter instances created so far
    filter_born,    \* per filter: the positions in cursor_hist of its two loads
    filter_last,    \* the last per-key decision: filter, key, decision, time
    disk,           \* the database directory under the ledger path
    store,          \* Option<Blockstore>: the store this process has open
    opening,        \* Option<Rocks>: the backend of a do_open that has not returned
    open_last,      \* the last Blockstore::open call: arguments, disk before, result
    ledger,         \* the ledger directory: whether it exists, the genesis file in it
    ledger_last,    \* the last create_new_ledger or destroy call, and the one before
    column,         \* the rows of a typed column of the open store: key -> bytes
    iterator,       \* Option: the rows an iterator over the column has yet to yield
    column_last,    \* the last call on the column: op, arguments, fault, result
    task,           \* the inputs of the job under way: a compaction, a call of a utility
    progress        \* how far that job is, and what it has returned

poh_vars == <<poh, poh_status, poh_arg, poh_last, poh_entries>>
filter_vars == <<oldest_slot, cursor_hist, creating, filters, filter_born, filter_last>>

store_vars == <<disk, store, opening, open_last, ledger, ledger_last>>

column_vars == <<column, iterator, column_last>>

task_vars == <<task, progress>>

vars == <<poh_vars, filter_vars, store_vars, column_vars, task_vars>>

(***************************************************************************)
(* Bounds.  u64 is scaled down to Width bits for hashes_per_tick,          *)
(* remaining_hashes and num_hashes, so that the low-power sentinel         *)
(* u64::MAX is a number a run can count down from.  tick_number is a       *)
(* counter of its own: a run is cut after MaxChain hashes, which keeps it  *)
(* far from the wrap-around of a u64.                                      *)
(***************************************************************************)
Width == 3
MaxHashesPerTick == 4
MaxHashArg == 2
MaxStartTick == 1
MaxChain == 8
NumMixins == 1
MaxSlot == 2
MaxFilters == 2
MaxStores == 2
NumKeyIds == 2
KeyRadix == 2
MaxTicksPerSlot == 2
MaxGenesisHashes == 2
MaxColumnIndex == 1
MaxRows == 2
MaxPort == 3
MaxPortCount == 2
MaxInputLen == 4
NumThreads == 2
MaxClock == 4
MaxSampleInterval == 1
MaxLeaderScheduleSlotOffset == 4
MaxSlotsPerEpoch == 1
MaxFreeChain == 3

U64Max == 2^Width - 1

\* let x = v; body: written The({body : x \in {v}}), so that v is computed
\* once.
The(S) == CHOOSE r \in S : TRUE

\* Option<T>
None == <<>>
Some(v) == <<v>>
is_some(o) == o # None
unwrap(o) == o[1]
unwrap_or(o, d) == IF is_some(o) THEN unwrap(o) ELSE d

(***************************************************************************)
(* Hashes.  A Hash is the term that produced it: the seed <<>> followed by *)
(* one token per hashing step, 0 for hash(h) and the mixin m >= 1 for      *)
(* hashv(&[h, m]).  Two hashes are equal iff they were produced alike      *)
(* (sha256 taken as collision free).                                       *)
(***************************************************************************)
SeedHash == <<>>
Mixins == 1..NumMixins
hash(h) == Append(h, 0)
hashv(h, mixin) == Append(h, mixin)

LOW_POWER_MODE == U64Max

PohEntry(n, h) == [num_hashes |-> n, hash |-> h]

\* The outcome of a call: the sequencer after it, what it returned, and
\* whether it panicked (an assert!, or an arithmetic overflow check).
Outcome(p, r, panicked) == [poh |-> p, ret |-> r, panic |-> panicked]

\* Mutant: the constructor's assertion off by one (hashes_per_tick > 0).
Poh_new_accepting_one(h, hashes_per_tick, tick_number) ==
    LET hpt == unwrap_or(hashes_per_tick, LOW_POWER_MODE) IN
    IF ~(hpt > 0)
    THEN Outcome(None, None, TRUE)
    ELSE Outcome(Some([hash |-> h,
                       num_hashes |-> 0,
                       hashes_per_tick |-> hpt,
                       remaining_hashes |-> hpt,
                       tick_number |-> tick_number]), None, FALSE)

Poh_new_with_slot_info(h, hashes_per_tick, tick_number) ==
    LET hpt == unwrap_or(hashes_per_tick, LOW_POWER_MODE) IN
    IF ~(hpt > 1)
    THEN Outcome(None, None, TRUE)
    ELSE Outcome(Some([hash |-> h,
                       num_hashes |-> 0,
                       hashes_per_tick |-> hpt,
                       remaining_hashes |-> hpt,
                       tick_number |-> tick_number]), None, FALSE)

Poh_new(h, hashes_per_tick) == Poh_new_with_slot_info(h, hashes_per_tick, 0)

Min(a, b) == IF a <= b THEN a ELSE b

RECURSIVE hash_n(_, _)
hash_n(h, n) == IF n = 0 THEN h ELSE hash_n(hash(h), n - 1)

\* Mutant: hash() allowed to use up the last remaining hash
\* (min(remaining_hashes, max_num_hashes)).
Poh_hash_to_zero(self, max_num_hashes) ==
    LET num_hashes == Min(self.remaining_hashes, max_num_hashes)
        after == [self EXCEPT !.hash = hash_n(self.hash, num_hashes),
                              !.num_hashes = self.num_hashes + num_hashes,
                              !.remaining_hashes = self.remaining_hashes - num_hashes]
    IN  IF ~(after.remaining_hashes > 0)
        THEN Outcome(after, None, TRUE)
        ELSE Outcome(after, after.remaining_hashes = 1, FALSE)

Poh_hash(self, max_num_hashes) ==
    IF self.remaining_hashes < 1
    THEN Outcome(self, None, TRUE)      \* remaining_hashes - 1 underflows
    ELSE
    LET num_hashes == Min(self.remaining_hashes - 1, max_num_hashes)
        after == [self EXCEPT !.hash = hash_n(self.hash, num_hashes),
                              !.num_hashes = self.num_hashes + num_hashes,
                              !.remaining_hashes = self.remaining_hashes - num_hashes]
    IN  IF ~(after.remaining_hashes > 0)
        THEN Outcome(after, None, TRUE)
        ELSE Outcome(after, after.remaining_hashes = 1, FALSE)

\* Mutant: record() refusing only when no hash remains (remaining_hashes == 0).
Poh_record_refusing_at_zero(self, mixin) ==
    IF self.remaining_hashes = 0
    THEN Outcome(self, None, FALSE)
    ELSE
    LET h == hashv(self.hash, mixin)
        num_hashes == self.num_hashes + 1
        after == [self EXCEPT !.hash = h,
                              !.num_hashes = 0,
                              !.remaining_hashes = self.remaining_hashes - 1]
    IN  Outcome(after, Some(PohEntry(num_hashes, h)), FALSE)

\* Mutant: record() not counting its own hash in the entry it emits.
Poh_record_uncounted(self, mixin) ==
    IF self.remaining_hashes = 1
    THEN Outcome(self, None, FALSE)
    ELSE
    LET h == hashv(self.hash, mixin)
        num_hashes == self.num_hashes
        after == [self EXCEPT !.hash = h,
                              !.num_hashes = 0,
                              !.remaining_hashes = self.remaining_hashes - 1]
    IN  Outcome(after, Some(PohEntry(num_hashes, h)), FALSE)

Poh_record(self, mixin) ==
    IF self.remaining_hashes = 1
    THEN Outcome(self, None, FALSE)
    ELSE IF self.remaining_hashes < 1
    THEN Outcome(self, None, TRUE)      \* remaining_hashes -= 1 underflows
    ELSE
    LET h == hashv(self.hash, mixin)
        num_hashes == self.num_hashes + 1
        after == [self EXCEPT !.hash = h,
                              !.num_hashes = 0,
                              !.remaining_hashes = self.remaining_hashes - 1]
    IN  Outcome(after, Some(PohEntry(num_hashes, h)), FALSE)

\* Mutant: tick() without the low-power case (emits only at remaining_hashes == 0).
Poh_tick_no_low_power(self) ==
    LET h == hash(self.hash)
        stepped == [self EXCEPT !.hash = h,
                                !.num_hashes = self.num_hashes + 1,
                                !.remaining_hashes = self.remaining_hashes - 1]
    IN  IF stepped.remaining_hashes # 0
        THEN Outcome(stepped, None, FALSE)
        ELSE LET num_hashes == stepped.num_hashes
                 after == [stepped EXCEPT !.remaining_hashes = stepped.hashes_per_tick,
                                          !.num_hashes = 0,
                                          !.tick_number = stepped.tick_number + 1]
             IN  Outcome(after, Some(PohEntry(num_hashes, h)), FALSE)

\* Mutant: tick() leaving num_hashes as it is when it emits.
Poh_tick_no_reset(self) ==
    LET h == hash(self.hash)
        stepped == [self EXCEPT !.hash = h,
                                !.num_hashes = self.num_hashes + 1,
                                !.remaining_hashes = self.remaining_hashes - 1]
    IN  IF stepped.hashes_per_tick # LOW_POWER_MODE /\ stepped.remaining_hashes # 0
        THEN Outcome(stepped, None, FALSE)
        ELSE LET num_hashes == stepped.num_hashes
                 after == [stepped EXCEPT !.remaining_hashes = stepped.hashes_per_tick,
                                          !.tick_number = stepped.tick_number + 1]
             IN  Outcome(after, Some(PohEntry(num_hashes, h)), FALSE)

\* Mutant: tick() emitting without counting the tick.
Poh_tick_uncounted(self) ==
    LET h == hash(self.hash)
        stepped == [self EXCEPT !.hash = h,
                                !.num_hashes = self.num_hashes + 1,
                                !.remaining_hashes = self.remaining_hashes - 1]
    IN  IF stepped.hashes_per_tick # LOW_POWER_MODE /\ stepped.remaining_hashes # 0
        THEN Outcome(stepped, None, FALSE)
        ELSE LET num_hashes == stepped.num_hashes
                 after == [stepped EXCEPT !.remaining_hashes = stepped.hashes_per_tick,
                                          !.num_hashes = 0]
             IN  Outcome(after, Some(PohEntry(num_hashes, h)), FALSE)

Poh_tick(self) ==
    IF self.remaining_hashes < 1
    THEN Outcome(self, None, TRUE)      \* remaining_hashes -= 1 underflows
    ELSE
    LET h == hash(self.hash)
        stepped == [self EXCEPT !.hash = h,
                                !.num_hashes = self.num_hashes + 1,
                                !.remaining_hashes = self.remaining_hashes - 1]
    IN  IF stepped.hashes_per_tick # LOW_POWER_MODE /\ stepped.remaining_hashes # 0
        THEN Outcome(stepped, None, FALSE)
        ELSE LET num_hashes == stepped.num_hashes
                 after == [stepped EXCEPT !.remaining_hashes = stepped.hashes_per_tick,
                                          !.num_hashes = 0,
                                          !.tick_number = stepped.tick_number + 1]
             IN  Outcome(after, Some(PohEntry(num_hashes, h)), FALSE)

(***************************************************************************)
(* The sequencer as a state machine: its single owner constructs it and   *)
(* then calls hash, record and tick in any order.                          *)
(***************************************************************************)
HashesPerTickArgs == {None} \cup {Some(n) : n \in 0..MaxHashesPerTick}
HashArgs == (0..MaxHashArg) \cup {U64Max}

Call(op, arg, out, pre) == [op |-> op, arg |-> arg, ret |-> out.ret, pre |-> pre]

PohInit ==
    \E hashes_per_tick \in HashesPerTickArgs, tick_number \in 0..MaxStartTick :
        LET out == Poh_new_with_slot_info(SeedHash, hashes_per_tick, tick_number) IN
        /\ poh = out.poh
        /\ poh_status = IF out.panic THEN "panicked" ELSE "ok"
        /\ poh_arg = [hashes_per_tick |-> hashes_per_tick, tick_number |-> tick_number]
        /\ poh_last = Call("new", None, out, None)
        /\ poh_entries = <<>>

PohIdle ==
    /\ poh = None
    /\ poh_status = "idle"
    /\ poh_arg = None
    /\ poh_last = None
    /\ poh_entries = <<>>

\* The outcome of a call on the sequencer, and the entry it returned in the
\* log.
ApplyOutcome(out, kind) ==
    /\ Len(out.poh.hash) <= MaxChain
    /\ poh' = Some(out.poh)
    /\ poh_status' = IF out.panic THEN "panicked" ELSE "ok"
    /\ poh_entries' = IF kind # "hash" /\ is_some(out.ret)
                      THEN Append(poh_entries, [kind |-> kind, entry |-> unwrap(out.ret)])
                      ELSE poh_entries
    /\ UNCHANGED <<poh_arg, filter_vars, store_vars, column_vars>>

Apply(op, arg, out, kind) ==
    /\ ApplyOutcome(out, kind)
    /\ poh_last' = Call(op, arg, out, unwrap(poh))
    /\ UNCHANGED task_vars

Hash ==
    /\ poh_status = "ok"
    /\ \E max_num_hashes \in HashArgs :
          Apply("hash", max_num_hashes, Poh_hash(unwrap(poh), max_num_hashes), "hash")

Record ==
    /\ poh_status = "ok"
    /\ \E mixin \in Mixins :
          Apply("record", mixin, Poh_record(unwrap(poh), mixin), "record")

Tick ==
    /\ poh_status = "ok"
    /\ Apply("tick", None, Poh_tick(unwrap(poh)), "tick")

PohNext == Hash \/ Record \/ Tick

(***************************************************************************)
(* The shared retention cursor and the compaction filter.                  *)
(***************************************************************************)
\* Slots.  99, 100 and 101 stand around the threshold of the retention
\* example (oldest_slot = 100).
Slots == 0..MaxSlot
SlotInputs == Slots \cup {99, 100, 101}

\* OldestSlot::default()
OldestSlot_default == [slot |-> 0, clean_slot_0 |-> FALSE]
OldestSlot_set_clean_slot_0(self, clean_slot_0) == [self EXCEPT !.clean_slot_0 = clean_slot_0]
OldestSlot_get_clean_slot_0(self) == self.clean_slot_0
OldestSlot_get(self) == self.slot
\* The store of the slot threshold by the external retention policy.
OldestSlot_set(self, slot) == [self EXCEPT !.slot = slot]

\* A key of a column whose keys embed a slot: what else the key holds, and
\* the slot.  C::index decodes the key, C::slot takes the slot of the index.
Key(id, slot) == <<id, slot>>
Keys(slots) == {Key(id, slot) : id \in 1..NumKeyIds, slot \in slots}
Column_index(key) == [id |-> key[1], slot |-> key[2]]
Column_slot(index) == index.slot

PurgedSlotFilter(oldest, clean_slot_0) == [oldest_slot |-> oldest, clean_slot_0 |-> clean_slot_0]

\* Mutant: the threshold slot itself removed (slot_in_key > oldest_slot).
PurgedSlotFilter_filter_strict(self, key) ==
    LET slot_in_key == Column_slot(Column_index(key)) IN
    IF slot_in_key > self.oldest_slot \/ (slot_in_key = 0 /\ ~self.clean_slot_0)
    THEN "Keep"
    ELSE "Remove"

\* Mutant: the negation of the flag lost (slot_in_key == 0 && clean_slot_0).
PurgedSlotFilter_filter_flag_inverted(self, key) ==
    LET slot_in_key == Column_slot(Column_index(key)) IN
    IF slot_in_key >= self.oldest_slot \/ (slot_in_key = 0 /\ self.clean_slot_0)
    THEN "Keep"
    ELSE "Remove"

\* Mutant: the filter loading the shared cursor for every key.
PurgedSlotFilter_filter_live(self, key) ==
    LET slot_in_key == Column_slot(Column_index(key)) IN
    IF slot_in_key >= OldestSlot_get(oldest_slot)
          \/ (slot_in_key = 0 /\ ~OldestSlot_get_clean_slot_0(oldest_slot))
    THEN "Keep"
    ELSE "Remove"

PurgedSlotFilter_filter(self, key) ==
    LET slot_in_key == Column_slot(Column_index(key)) IN
    IF slot_in_key >= self.oldest_slot \/ (slot_in_key = 0 /\ ~self.clean_slot_0)
    THEN "Keep"
    ELSE "Remove"

\* PurgedSlotFilterFactory::create is two relaxed loads, of the slot and of
\* the flag, and then the construction of the filter from the two copies.
PurgedSlotFilterFactory_create(copied_oldest_slot, copied_clean_slot_0) ==
    PurgedSlotFilter(copied_oldest_slot, copied_clean_slot_0)

Now == Len(cursor_hist)

FilterInit ==
    /\ oldest_slot = OldestSlot_default
    /\ cursor_hist = <<OldestSlot_default>>
    /\ creating = None
    /\ filters = <<>>
    /\ filter_born = <<>>
    /\ filter_last = None

FilterIdle ==
    /\ oldest_slot = OldestSlot_default
    /\ cursor_hist = <<>>
    /\ creating = None
    /\ filters = <<>>
    /\ filter_born = <<>>
    /\ filter_last = None

\* A filter given directly by its two fields: the inputs of filter().
FilterFnInit ==
    \E oldest \in SlotInputs, clean_slot_0 \in BOOLEAN :
        /\ oldest_slot = OldestSlot_default
        /\ cursor_hist = <<>>
        /\ creating = None
        /\ filters = <<PurgedSlotFilter(oldest, clean_slot_0)>>
        /\ filter_born = <<>>
        /\ filter_last = None

Store(cursor) ==
    /\ Len(cursor_hist) <= MaxStores
    /\ oldest_slot' = cursor
    /\ cursor_hist' = Append(cursor_hist, cursor)
    /\ UNCHANGED <<creating, filters, filter_born, filter_last, poh_vars, store_vars, column_vars, task_vars>>

SetCleanSlot0 ==
    \E clean_slot_0 \in BOOLEAN :
        Store(OldestSlot_set_clean_slot_0(oldest_slot, clean_slot_0))

\* The external retention policy moves the threshold, never backwards.
SetOldestSlot ==
    \E slot \in Slots :
        /\ slot >= oldest_slot.slot
        /\ Store(OldestSlot_set(oldest_slot, slot))

CreateLoadSlot ==
    /\ creating = None
    /\ Len(filters) < MaxFilters
    /\ creating' = Some([copied_oldest_slot |-> OldestSlot_get(oldest_slot), at |-> Now])
    /\ UNCHANGED <<oldest_slot, cursor_hist, filters, filter_born, filter_last, poh_vars, store_vars, column_vars, task_vars>>

CreateLoadCleanSlot0 ==
    /\ is_some(creating)
    /\ LET copied_clean_slot_0 == OldestSlot_get_clean_slot_0(oldest_slot) IN
       /\ filters' = Append(filters,
                        PurgedSlotFilterFactory_create(unwrap(creating).copied_oldest_slot,
                                                       copied_clean_slot_0))
       /\ filter_born' = Append(filter_born,
                            [slot_at |-> unwrap(creating).at, clean_slot_0_at |-> Now])
    /\ creating' = None
    /\ UNCHANGED <<oldest_slot, cursor_hist, filter_last, poh_vars, store_vars, column_vars, task_vars>>

Filter(keys) ==
    \E f \in 1..Len(filters), key \in keys :
        /\ filter_last' = Some([filter |-> f, key |-> key,
                                decision |-> PurgedSlotFilter_filter(filters[f], key),
                                at |-> Now])
        /\ UNCHANGED <<oldest_slot, cursor_hist, creating, filters, filter_born, poh_vars, store_vars, column_vars, task_vars>>

FilterKey == Filter(Keys(Slots))
FilterAnyKey == Filter(Keys(SlotInputs))

FilterNext ==
    SetCleanSlot0 \/ SetOldestSlot \/ CreateLoadSlot \/ CreateLoadCleanSlot0 \/ FilterKey

FilterFnNext == FilterAnyKey

(***************************************************************************)
(* The storage backend and the ledger store: Rocks::open and               *)
(* Blockstore::do_open over a database directory.                          *)
(***************************************************************************)
AccessTypes == {"Primary", "PrimaryForMaintenance", "Secondary"}

\* Column family names, each written as the column type it is the NAME of.
DEFAULT_COLUMN_NAME == "default"
DEPRECATED_PROGRAM_COSTS_COLUMN_NAME == "program_costs"

\* Mutant: the column added last has no descriptor.
DescriptorColumns_without_latest ==
    {"SlotMeta", "DeadSlots", "ErasureMeta", "Orphans", "BankHash", "Root", "Index",
     "ShredData", "ShredCode", "TransactionStatus", "AddressSignatures",
     "TransactionMemos", "TransactionStatusIndex", "Rewards", "Blocktime",
     "PerfSamples", "BlockHeight", "OptimisticSlots"}

\* The columns Rocks::cf_descriptors builds descriptors for.
DescriptorColumns ==
    {"SlotMeta", "DeadSlots", "ErasureMeta", "Orphans", "BankHash", "Root", "Index",
     "ShredData", "ShredCode", "TransactionStatus", "AddressSignatures",
     "TransactionMemos", "TransactionStatusIndex", "Rewards", "Blocktime",
     "PerfSamples", "BlockHeight", "OptimisticSlots", "MerkleRootMeta"}

\* Rocks::columns()
Rocks_columns ==
    {"ErasureMeta", "DeadSlots", "Index", "Orphans", "BankHash", "Root", "SlotMeta",
     "ShredData", "ShredCode", "TransactionStatus", "AddressSignatures",
     "TransactionMemos", "TransactionStatusIndex", "Rewards", "Blocktime",
     "PerfSamples", "BlockHeight", "OptimisticSlots", "MerkleRootMeta"}

\* The typed column handles of the Blockstore, each by the column type of
\* its field.
Blockstore_columns ==
    {"AddressSignatures", "BankHash", "BlockHeight", "Blocktime", "ShredCode",
     "ShredData", "DeadSlots", "ErasureMeta", "Index", "MerkleRootMeta", "SlotMeta",
     "OptimisticSlots", "Orphans", "PerfSamples", "Rewards", "Root",
     "TransactionMemos", "TransactionStatus", "TransactionStatusIndex"}

MAX_WRITE_BUFFER_SIZE == 256 * 1024 * 1024
PERIODIC_COMPACTION_SECONDS == 60 * 60 * 24

\* rocksdb::Options::default(), as far as the backend sets or reads it.
Options_default ==
    [write_buffer_size |-> 0,               \* 0: the engine's own default
     disable_auto_compactions |-> FALSE,
     compaction_filter_factory |-> FALSE,   \* whether a PurgedSlotFilterFactory is set
     periodic_compaction_seconds |-> 0]

\* Mutant: automatic compactions disabled for Secondary access only.
should_disable_auto_compactions_secondary_only(access_type) ==
    access_type = "Secondary"

should_disable_auto_compactions(access_type) == ~(access_type = "Primary")

\* get_db_options, as far as compaction goes.
get_db_options(access_type) ==
    IF should_disable_auto_compactions(access_type)
    THEN [Options_default EXCEPT !.disable_auto_compactions = TRUE]
    ELSE Options_default

should_enable_cf_compaction(cf_name) ==
    cf_name \in {"TransactionStatus", "TransactionMemos", "AddressSignatures"}

get_cf_options(cf_name, access_type) ==
    LET disable_auto_compactions == should_disable_auto_compactions(access_type)
        sized == [Options_default EXCEPT !.write_buffer_size = MAX_WRITE_BUFFER_SIZE]
        disabled == IF disable_auto_compactions
                    THEN [sized EXCEPT !.disable_auto_compactions = TRUE]
                    ELSE sized
    IN  IF ~disable_auto_compactions /\ should_enable_cf_compaction(cf_name)
        THEN [disabled EXCEPT !.compaction_filter_factory = TRUE]
        ELSE disabled

ColumnFamilyDescriptor(cf_name, options) == [name |-> cf_name, options |-> options]

new_cf_descriptor(cf_name, access_type) ==
    ColumnFamilyDescriptor(cf_name, get_cf_options(cf_name, access_type))

\* The descriptor of a column this software does not know.
unknown_cf_descriptor(cf_name) ==
    ColumnFamilyDescriptor(cf_name,
        [Options_default EXCEPT !.write_buffer_size = 1024 * 1024,
                                !.disable_auto_compactions = TRUE])

Ok(v) == [ok |-> TRUE, val |-> v]
Err(e) == [ok |-> FALSE, err |-> e]

\* DB::list_cf: the column families of the database at the path; an error
\* when there is no database there.
DB_list_cf(d) == IF d.exists THEN Ok(d.cfs) ELSE Err("NotFound")

\* Mutant: no descriptors for the columns detected on disk.
Rocks_cf_descriptors_known_only(d, access_type) ==
    {new_cf_descriptor(cf_name, access_type) : cf_name \in DescriptorColumns}

\* Rocks::cf_descriptors; the Vec of descriptors as the set of its elements.
Rocks_cf_descriptors(d, access_type) ==
    LET cf_descriptors ==
            {new_cf_descriptor(cf_name, access_type) : cf_name \in DescriptorColumns}
    IN  IF access_type = "Secondary"
        THEN cf_descriptors
        ELSE
        LET listed == DB_list_cf(d)
            detected_cfs == IF listed.ok THEN listed.val ELSE {}
            known_cfs == {cf.name : cf \in cf_descriptors} \cup {DEFAULT_COLUMN_NAME}
        IN  cf_descriptors \cup
                {unknown_cf_descriptor(cf_name) : cf_name \in detected_cfs \ known_cfs}

\* The handles of an open database: the options of each column family open.
Handles(cf_descriptors) ==
    [cf_name \in {cf.name : cf \in cf_descriptors} \cup {DEFAULT_COLUMN_NAME} |->
        IF \E cf \in cf_descriptors : cf.name = cf_name
        THEN (CHOOSE cf \in cf_descriptors : cf.name = cf_name).options
        ELSE Options_default]

\* A path with no database: no column family, no row.  slot0 stands for the
\* shred columns: the entries slot 0 holds.
EmptyDisk == [exists |-> FALSE, cfs |-> {}, root |-> {}, tsi |-> <<>>,
              address_signatures_dummy |-> FALSE, slot0 |-> <<>>]

\* DB::open_cf_descriptors with create_if_missing and
\* create_missing_column_families: a database that exists opens only if
\* every column family it holds is given a descriptor (the default one is
\* opened by itself); the column families it lacks are created.
DB_open_cf_descriptors(d, cf_descriptors) ==
    LET names == {cf.name : cf \in cf_descriptors} \cup {DEFAULT_COLUMN_NAME} IN
    IF d.exists /\ ~(d.cfs \subseteq names)
    THEN Err("InvalidArgument")
    ELSE Ok([disk |-> [d EXCEPT !.exists = TRUE, !.cfs = d.cfs \cup names],
             cf |-> Handles(cf_descriptors)])

\* DB::open_cf_descriptors_as_secondary: the database must exist and hold
\* every column family asked for; nothing is created.
DB_open_cf_descriptors_as_secondary(d, cf_descriptors) ==
    LET names == {cf.name : cf \in cf_descriptors} IN
    IF ~d.exists
    THEN Err("NotFound")
    ELSE IF ~(names \subseteq d.cfs)
    THEN Err("InvalidArgument")
    ELSE Ok([disk |-> d, cf |-> Handles(cf_descriptors)])

\* Rocks::configure_compaction on the handles of an open database.
Rocks_configure_compaction(cf, access_type) ==
    IF should_disable_auto_compactions(access_type)
    THEN cf
    ELSE [cf_name \in DOMAIN cf |->
            IF cf_name \in Rocks_columns /\ should_enable_cf_compaction(cf_name)
            THEN [cf[cf_name] EXCEPT
                     !.periodic_compaction_seconds = PERIODIC_COMPACTION_SECONDS]
            ELSE cf[cf_name]]

Remove(f, x) == [y \in DOMAIN f \ {x} |-> f[y]]

\* Mutant: the deprecated column is left in the database.
Rocks_opened_keeping_program_costs(db, cf_descriptors, access_type) ==
    [ok |-> TRUE,
     disk |-> db.disk,
     cf_descriptors |-> cf_descriptors,
     rocks |-> [access_type |-> access_type,
                db_options |-> get_db_options(access_type),
                oldest_slot |-> OldestSlot_default,
                cf |-> Rocks_configure_compaction(db.cf, access_type)]]

\* The rest of Rocks::open once the database is open: the deprecated column
\* is dropped if it was opened, and compaction is configured.
Rocks_opened(db, cf_descriptors, access_type) ==
    LET drop == DEPRECATED_PROGRAM_COSTS_COLUMN_NAME \in DOMAIN db.cf
        cfs == IF drop
               THEN db.disk.cfs \ {DEPRECATED_PROGRAM_COSTS_COLUMN_NAME}
               ELSE db.disk.cfs
        cf == IF drop
              THEN Remove(db.cf, DEPRECATED_PROGRAM_COSTS_COLUMN_NAME)
              ELSE db.cf
    IN  [ok |-> TRUE,
         disk |-> [db.disk EXCEPT !.cfs = cfs],
         cf_descriptors |-> cf_descriptors,
         rocks |-> [access_type |-> access_type,
                    db_options |-> get_db_options(access_type),
                    oldest_slot |-> OldestSlot_default,
                    cf |-> Rocks_configure_compaction(cf, access_type)]]

\* Rocks::open.  fault: the file system or the engine fails the open.
Rocks_open(d, access_type, fault) ==
    The({ The({ IF ~opened.ok
                THEN [ok |-> FALSE, err |-> opened.err, disk |-> d,
                      cf_descriptors |-> cf_descriptors]
                ELSE Rocks_opened(opened.val, cf_descriptors, access_type)
                : opened \in
                    { IF fault
                      THEN Err("IO")
                      ELSE IF access_type = "Secondary"
                      THEN DB_open_cf_descriptors_as_secondary(d, cf_descriptors)
                      ELSE DB_open_cf_descriptors(d, cf_descriptors) } })
          : cf_descriptors \in {Rocks_cf_descriptors(d, access_type)} })

Rocks_is_primary_access(rocks) ==
    rocks.access_type = "Primary" \/ rocks.access_type = "PrimaryForMaintenance"

(***************************************************************************)
(* Keys of the root column: the slot as big-endian digits, so that the     *)
(* engine's byte order on keys is the numeric order on slots.              *)
(***************************************************************************)
Root_key(slot) == <<slot \div KeyRadix, slot % KeyRadix>>
Root_index(key) == key[1] * KeyRadix + key[2]
KeyLess(a, b) == a[1] < b[1] \/ (a[1] = b[1] /\ a[2] < b[2])

RECURSIVE Ascending(_)
\* The keys of a column in the engine's order.
Ascending(keys) ==
    IF keys = {} THEN <<>>
    ELSE LET first == CHOOSE k \in keys : \A other \in keys \ {k} : KeyLess(k, other)
         IN  <<first>> \o Ascending(keys \ {first})

Reverse(seq) == [i \in 1..Len(seq) |-> seq[Len(seq) + 1 - i]]

\* LedgerColumn::iter over the root column: the indexes of its rows, from
\* the start forwards or from the end backwards.
Root_iter(keys, iterator_mode) ==
    LET forward == Ascending(keys)
        ordered == IF iterator_mode = "End" THEN Reverse(forward) ELSE forward
    IN  [i \in 1..Len(ordered) |-> Root_index(ordered[i])]

\* Iterator::next
next(iter) == IF iter = <<>> THEN None ELSE Some(iter[1])

\* Mutant: max_root read from the first row of the root column.
max_root_from_start(keys) == unwrap_or(next(Root_iter(keys, "Start")), 0)

\* Blockstore::do_open: "Get max root or 0 if it doesn't exist".
max_root_at_open(keys) == unwrap_or(next(Root_iter(keys, "End")), 0)

TransactionStatusIndexMeta_default == [max_slot |-> 0, frozen |-> FALSE]

Put(f, k, v) == [x \in DOMAIN f \cup {k} |-> IF x = k THEN v ELSE f[x]]

\* Mutant: the legacy cleanup run whatever the access.
Blockstore_cleanup_old_entries_any_access(d, rocks) ==
    LET d0 == IF 0 \notin DOMAIN d.tsi
              THEN [d EXCEPT !.tsi = Put(d.tsi, 0, TransactionStatusIndexMeta_default)]
              ELSE d
        d1 == IF 1 \notin DOMAIN d0.tsi
              THEN [d0 EXCEPT !.tsi = Put(d0.tsi, 1, TransactionStatusIndexMeta_default)]
              ELSE d0
    IN  IF d1.address_signatures_dummy
        THEN [d1 EXCEPT !.address_signatures_dummy = FALSE]
        ELSE d1

\* Mutant: the second check of the legacy cleanup reading row 0 again.
Blockstore_cleanup_old_entries_row_0_twice(d, rocks) ==
    IF ~Rocks_is_primary_access(rocks)
    THEN d
    ELSE
    LET d0 == IF 0 \notin DOMAIN d.tsi
              THEN [d EXCEPT !.tsi = Put(d.tsi, 0, TransactionStatusIndexMeta_default)]
              ELSE d
        d1 == IF 0 \notin DOMAIN d0.tsi
              THEN [d0 EXCEPT !.tsi = Put(d0.tsi, 1, TransactionStatusIndexMeta_default)]
              ELSE d0
    IN  IF d1.address_signatures_dummy
        THEN [d1 EXCEPT !.address_signatures_dummy = FALSE]
        ELSE d1

\* Blockstore::cleanup_old_entries
Blockstore_cleanup_old_entries(d, rocks) ==
    IF ~Rocks_is_primary_access(rocks)
    THEN d
    ELSE
    LET d0 == IF 0 \notin DOMAIN d.tsi
              THEN [d EXCEPT !.tsi = Put(d.tsi, 0, TransactionStatusIndexMeta_default)]
              ELSE d
        d1 == IF 1 \notin DOMAIN d0.tsi
              THEN [d0 EXCEPT !.tsi = Put(d0.tsi, 1, TransactionStatusIndexMeta_default)]
              ELSE d0
    IN  IF d1.address_signatures_dummy
        THEN [d1 EXCEPT !.address_signatures_dummy = FALSE]
        ELSE d1

RECURSIVE highest_min_slot(_, _, _)
\* Mutant: the comparison of the loop turned around (meta.max_slot < slot).
highest_min_slot(tsi, i, highest_primary_index_slot) ==
    IF i > 1
    THEN highest_primary_index_slot
    ELSE IF i \notin DOMAIN tsi
    THEN highest_min_slot(tsi, i + 1, highest_primary_index_slot)
    ELSE IF highest_primary_index_slot = None
            \/ tsi[i].max_slot < unwrap(highest_primary_index_slot)
    THEN highest_min_slot(tsi, i + 1, Some(tsi[i].max_slot))
    ELSE highest_min_slot(tsi, i + 1, highest_primary_index_slot)

RECURSIVE highest_max_slot(_, _, _)
\* The loop of update_highest_primary_index_slot over the rows from index i.
highest_max_slot(tsi, i, highest_primary_index_slot) ==
    IF i > 1
    THEN highest_primary_index_slot
    ELSE IF i \notin DOMAIN tsi
    THEN highest_max_slot(tsi, i + 1, highest_primary_index_slot)
    ELSE IF highest_primary_index_slot = None
            \/ unwrap(highest_primary_index_slot) < tsi[i].max_slot
    THEN highest_max_slot(tsi, i + 1, Some(tsi[i].max_slot))
    ELSE highest_max_slot(tsi, i + 1, highest_primary_index_slot)

\* Mutant: clean_slot_0 set whatever the rows hold.
Blockstore_update_highest_primary_index_slot_always_clean(d, cached, cursor) ==
    LET highest_primary_index_slot == highest_max_slot(d.tsi, 0, None) IN
    [highest_primary_index_slot |->
         IF is_some(highest_primary_index_slot) /\ unwrap(highest_primary_index_slot) # 0
         THEN highest_primary_index_slot
         ELSE cached,
     oldest_slot |-> OldestSlot_set_clean_slot_0(cursor, TRUE)]

\* Blockstore::update_highest_primary_index_slot: the cached slot and the
\* cursor after it.
Blockstore_update_highest_primary_index_slot(d, cached, cursor) ==
    LET highest_primary_index_slot == highest_max_slot(d.tsi, 0, None) IN
    IF is_some(highest_primary_index_slot) /\ unwrap(highest_primary_index_slot) # 0
    THEN [highest_primary_index_slot |-> highest_primary_index_slot,
          oldest_slot |-> cursor]
    ELSE [highest_primary_index_slot |-> cached,
          oldest_slot |-> OldestSlot_set_clean_slot_0(cursor, TRUE)]

\* The rest of Blockstore::do_open once the backend is open.
Blockstore_opened(db) ==
    The({ The({ [result |-> "Ok", disk |-> cleaned,
                 cf_descriptors |-> db.cf_descriptors,
                 blockstore |->
                     Some([db |-> [db.rocks EXCEPT
                                      !.oldest_slot = updated.oldest_slot],
                           max_root |-> max_root_at_open(db.disk.root),
                           highest_primary_index_slot |->
                               updated.highest_primary_index_slot])]
                : updated \in
                    {Blockstore_update_highest_primary_index_slot(
                         cleaned, None, db.rocks.oldest_slot)} })
          : cleaned \in {Blockstore_cleanup_old_entries(db.disk, db.rocks)} })

\* Blockstore::do_open
Blockstore_do_open(d, access_type, fault) ==
    The({ IF ~db.ok
          THEN [result |-> "Err", disk |-> db.disk,
                cf_descriptors |-> db.cf_descriptors, blockstore |-> None]
          ELSE IF ~(Rocks_columns \subseteq DOMAIN db.rocks.cf)
          THEN \* cf_handle: "should never get an unknown column"
               [result |-> "Panic", disk |-> db.disk,
                cf_descriptors |-> db.cf_descriptors, blockstore |-> None]
          ELSE Blockstore_opened(db)
          : db \in {Rocks_open(d, access_type, fault)} })

\* The databases a ledger directory may hold: none, or one written by this
\* or another version of the software.
UnknownNames == {DEPRECATED_PROGRAM_COSTS_COLUMN_NAME, "newer_column"}
LaterColumns == {"MerkleRootMeta"}
Metas == [max_slot : Slots, frozen : BOOLEAN]

Disks ==
    {EmptyDisk} \cup
    { [exists |-> TRUE,
       cfs |-> ({DEFAULT_COLUMN_NAME} \cup (DescriptorColumns \ lacking)) \cup unknown,
       root |-> {Root_key(slot) : slot \in roots},
       tsi |-> tsi,
       address_signatures_dummy |-> dummy,
       slot0 |-> <<>>] :
         unknown \in SUBSET UnknownNames, lacking \in SUBSET LaterColumns,
         roots \in SUBSET Slots,
         tsi \in UNION {[D -> Metas] : D \in SUBSET {0, 1}},
         dummy \in BOOLEAN }

\* The ledger directory: it exists once a database is under it.
NoLedger == [exists |-> FALSE, genesis |-> None]

StoreInit ==
    /\ disk \in Disks
    /\ store = None
    /\ opening = None
    /\ open_last = None
    /\ ledger \in {[NoLedger EXCEPT !.exists = e] : e \in {TRUE, disk.exists}}
    /\ ledger_last = None

StoreIdle ==
    /\ disk = EmptyDisk
    /\ store = None
    /\ opening = None
    /\ open_last = None
    /\ ledger = NoLedger
    /\ ledger_last = None

\* Blockstore::open_with_options(ledger_path, options)
Open ==
    /\ store = None
    /\ \E access_type \in AccessTypes, fault \in BOOLEAN :
       \E out \in {Blockstore_do_open(disk, access_type, fault)} :
          /\ disk' = out.disk
          /\ store' = out.blockstore
          /\ open_last' = Some([access_type |-> access_type, fault |-> fault,
                                before |-> disk, result |-> out.result,
                                cf_descriptors |-> out.cf_descriptors])
          /\ oldest_slot' = IF is_some(out.blockstore)
                            THEN unwrap(out.blockstore).db.oldest_slot
                            ELSE oldest_slot
          \* fs::create_dir_all(ledger_path)
          /\ ledger' = IF fault THEN ledger ELSE [ledger EXCEPT !.exists = TRUE]
    /\ UNCHANGED <<cursor_hist, creating, filters, filter_born, filter_last,
                   opening, ledger_last, poh_vars, column_vars, task_vars>>

\* The store is dropped.
Close ==
    /\ is_some(store)
    /\ store' = None
    /\ UNCHANGED <<disk, opening, open_last, ledger, ledger_last, filter_vars, poh_vars, column_vars, task_vars>>

StoreNext == Open \/ Close

(***************************************************************************)
(* Creation and destruction of a ledger: create_new_ledger and             *)
(* Blockstore::destroy over the ledger directory and the database in it.   *)
(***************************************************************************)
\* No column of the store is being read or written, and no job is under way.
ColumnIdle ==
    /\ column = <<>>
    /\ iterator = None
    /\ column_last = None
    /\ task = None
    /\ progress = None

\* GenesisConfig, as far as create_new_ledger reads it.
GenesisConfigs ==
    [ticks_per_slot : 0..MaxTicksPerSlot,
     hashes_per_tick : {None} \cup {Some(n) : n \in 0..MaxGenesisHashes}]

\* GenesisConfig::hash: the content hash, a seed of its own per configuration.
GenesisConfig_hash(genesis_config) ==
    <<NumMixins + 1
        + genesis_config.ticks_per_slot * (MaxGenesisHashes + 2)
        + (IF genesis_config.hashes_per_tick = None
           THEN 0
           ELSE 1 + unwrap(genesis_config.hashes_per_tick))>>

Entry(num_hashes, h, transactions) ==
    [num_hashes |-> num_hashes, hash |-> h, transactions |-> transactions]

\* The hash of a tick entry num_hashes after start_hash: the sequencer in
\* low-power mode hashes num_hashes - 1 times and ticks.
next_hash(start_hash, num_hashes) ==
    IF num_hashes = 0
    THEN start_hash
    ELSE The({ unwrap(Poh_tick(Poh_hash(unwrap(created.poh),
                                        num_hashes - 1).poh).ret).hash
               : created \in {Poh_new(start_hash, None)} })

RECURSIVE create_ticks(_, _, _)
\* create_ticks(num_ticks, hashes_per_tick, hash): num_ticks entries without
\* transactions, each chained from the one before.
create_ticks(num_ticks, hashes_per_tick, h) ==
    IF num_ticks = 0
    THEN <<>>
    ELSE The({ <<entry>> \o create_ticks(num_ticks - 1, hashes_per_tick, entry.hash)
               : entry \in {Entry(hashes_per_tick,
                                  next_hash(h, hashes_per_tick), <<>>)} })

\* BlockstoreOptions::default()
BlockstoreOptions_default == [access_type |-> "Primary"]

\* DB::destroy on a database no process has open: its files are deleted,
\* and there being none is no error.
DB_destroy(d) == Ok(EmptyDisk)

\* Rocks::destroy
Rocks_destroy(d, fault) ==
    IF fault THEN Err("IO") ELSE DB_destroy(d)

\* What goes wrong in a call: nothing, or the named step fails with an I/O
\* error.
DestroyFaults == {"none", "create_dir_all", "destroy"}
CreateFaults == DestroyFaults \cup {"write", "open"}

\* Mutant: fs::create_dir for fs::create_dir_all, which fails on a directory
\* that exists.
Blockstore_destroy_create_dir(l, d, fault) ==
    IF fault = "create_dir_all" \/ l.exists
    THEN [ok |-> FALSE, ledger |-> l, disk |-> d]
    ELSE The({ [ok |-> destroyed.ok,
                ledger |-> [l EXCEPT !.exists = TRUE],
                disk |-> IF destroyed.ok THEN destroyed.val ELSE d]
               : destroyed \in {Rocks_destroy(d, fault = "destroy")} })

\* Mutant: the directory is not created first; Database::destroy() fails if
\* the root directory doesn't exist.
Blockstore_destroy_no_create_dir_all(l, d, fault) ==
    IF fault = "create_dir_all" \/ ~l.exists
    THEN [ok |-> FALSE, ledger |-> l, disk |-> d]
    ELSE The({ [ok |-> destroyed.ok,
                ledger |-> l,
                disk |-> IF destroyed.ok THEN destroyed.val ELSE d]
               : destroyed \in {Rocks_destroy(d, fault = "destroy")} })

\* Blockstore::destroy(ledger_path) on the directory l holding the database d.
Blockstore_destroy(l, d, fault) ==
    IF fault = "create_dir_all"
    THEN [ok |-> FALSE, ledger |-> l, disk |-> d]
    ELSE The({ [ok |-> destroyed.ok,
                ledger |-> [l EXCEPT !.exists = TRUE],
                disk |-> IF destroyed.ok THEN destroyed.val ELSE d]
               : destroyed \in {Rocks_destroy(d, fault = "destroy")} })

\* What create_new_ledger returns and leaves behind.
Created(result, h, entries, l, d) ==
    [result |-> result, hash |-> h, entries |-> entries, ledger |-> l, disk |-> d]

\* create_new_ledger from the opening of the fresh store on.
create_new_ledger_open(l, d, genesis_config, fault) ==
    The({ IF opened.result # "Ok"
          THEN Created(opened.result, None, <<>>, l, opened.disk)
          ELSE The({ IF entries = <<>>
                     THEN \* entries.last().unwrap()
                          Created("Panic", None, entries, l, opened.disk)
                     ELSE Created("Ok", Some(entries[Len(entries)].hash), entries,
                                  l, opened.disk)
                     : entries \in
                         {create_ticks(genesis_config.ticks_per_slot,
                                       unwrap_or(genesis_config.hashes_per_tick, 0),
                                       GenesisConfig_hash(genesis_config))} })
          : opened \in {Blockstore_do_open(d, BlockstoreOptions_default.access_type,
                                           fault = "open")} })

\* create_new_ledger(ledger_path, genesis_config, ..)
create_new_ledger(l, d, genesis_config, fault) ==
    The({ IF ~destroyed.ok
          THEN Created("Err", None, <<>>, destroyed.ledger, destroyed.disk)
          ELSE IF fault = "write"
          THEN \* genesis_config.write(ledger_path)?
               Created("Err", None, <<>>, destroyed.ledger, destroyed.disk)
          ELSE create_new_ledger_open(
                   [destroyed.ledger EXCEPT !.genesis = Some(genesis_config)],
                   destroyed.disk, genesis_config, fault)
          : destroyed \in {Blockstore_destroy(l, d, fault)} })

\* Whether the call before this one was the same call (op, and for
\* create_new_ledger the genesis configuration) and succeeded.
Again(op, genesis_config) ==
    /\ is_some(ledger_last)
    /\ unwrap(ledger_last).op = op
    /\ unwrap(ledger_last).genesis_config = genesis_config
    /\ unwrap(ledger_last).result = "Ok"

\* The record of a call: its arguments, what it met, what it returned, what
\* the call before it returned if that was the same call, and whether it left
\* the path as it found it.
LedgerCall(op, genesis_config, fault, result, h, entries, l, d) ==
    [op |-> op, genesis_config |-> genesis_config,
     fault |-> fault, existed |-> ledger.exists,
     result |-> result, hash |-> h, entries |-> entries,
     again |-> Again(op, genesis_config),
     prev_hash |-> IF Again(op, genesis_config)
                   THEN unwrap(ledger_last).hash ELSE None,
     prev_entries |-> IF Again(op, genesis_config)
                      THEN unwrap(ledger_last).entries ELSE <<>>,
     unchanged |-> (l = ledger /\ d = disk)]

\* create_new_ledger(ledger_path, genesis_config, ..) is called, by a process
\* that has no store open, and returns.
CreateNewLedger ==
    /\ store = None
    /\ \E genesis_config \in GenesisConfigs, fault \in CreateFaults :
       \E out \in {create_new_ledger(ledger, disk, genesis_config, fault)} :
          /\ disk' = out.disk
          /\ ledger' = out.ledger
          /\ ledger_last' = Some(LedgerCall("create_new_ledger",
                                            Some(genesis_config), fault,
                                            out.result, out.hash, out.entries,
                                            out.ledger, out.disk))
    /\ UNCHANGED <<store, opening, open_last, filter_vars, poh_vars, column_vars, task_vars>>

\* Blockstore::destroy(ledger_path) is called, by a process that has no store
\* open, and returns.
Destroy ==
    /\ store = None
    /\ \E fault \in DestroyFaults :
       \E out \in {Blockstore_destroy(ledger, disk, fault)} :
          /\ disk' = out.disk
          /\ ledger' = out.ledger
          /\ ledger_last' = Some(LedgerCall("destroy", None, fault,
                                            IF out.ok THEN "Ok" ELSE "Err",
                                            None, <<>>, out.ledger, out.disk))
    /\ UNCHANGED <<store, opening, open_last, filter_vars, poh_vars, column_vars, task_vars>>

\* What an earlier ledger may have left at the path.
StaleEntries == create_ticks(MaxTicksPerSlot, 0, SeedHash)
UsedDisk ==
    [exists |-> TRUE,
     cfs |-> {DEFAULT_COLUMN_NAME} \cup DescriptorColumns,
     root |-> {Root_key(slot) : slot \in Slots},
     tsi |-> [i \in {0, 1} |-> [max_slot |-> MaxSlot, frozen |-> i = 0]],
     address_signatures_dummy |-> TRUE,
     slot0 |-> StaleEntries]
LedgerDisks ==
    {EmptyDisk, UsedDisk,
     [UsedDisk EXCEPT !.cfs = @ \cup UnknownNames],
     [UsedDisk EXCEPT !.cfs = @ \ LaterColumns]}
StaleGenesis == [ticks_per_slot |-> MaxTicksPerSlot, hashes_per_tick |-> None]
Ledgers ==
    [exists : BOOLEAN, genesis : {None}] \cup
    {[exists |-> TRUE, genesis |-> Some(StaleGenesis)]}

LedgerInit ==
    /\ disk \in LedgerDisks
    /\ store = None
    /\ opening = None
    /\ open_last = None
    /\ ledger \in {l \in Ledgers : disk.exists => l.exists}
    /\ ledger_last = None

LedgerNext == CreateNewLedger \/ Destroy

InitLedger == LedgerInit /\ PohIdle /\ FilterIdle /\ ColumnIdle
SpecLedger == InitLedger /\ [][LedgerNext]_vars

(***************************************************************************)
(* The open of a store step by step, with the compaction of the engine    *)
(* running beside it: the engine may create filters from the moment        *)
(* Rocks::open has opened the database, before do_open has returned.       *)
(***************************************************************************)
\* Whether a PurgedSlotFilterFactory is installed on a column of the backend.
FactoryInstalled(rocks) ==
    \E cf_name \in DOMAIN rocks.cf : rocks.cf[cf_name].compaction_filter_factory

\* Blockstore::do_open up to the return of Rocks::open.
OpenBackend ==
    /\ store = None /\ opening = None /\ open_last = None
    /\ \E access_type \in AccessTypes :
       \E db \in {Rocks_open(disk, access_type, FALSE)} :
          /\ disk' = db.disk
          /\ opening' = IF db.ok THEN Some(db) ELSE None
          /\ open_last' = Some([access_type |-> access_type, fault |-> FALSE,
                                before |-> disk,
                                result |-> IF db.ok THEN "Opening" ELSE "Err",
                                cf_descriptors |-> db.cf_descriptors,
                                finished |-> None])
          /\ oldest_slot' = IF db.ok THEN db.rocks.oldest_slot ELSE oldest_slot
          /\ cursor_hist' = IF db.ok THEN <<db.rocks.oldest_slot>> ELSE cursor_hist
    /\ ledger' = [ledger EXCEPT !.exists = TRUE]
    /\ UNCHANGED <<store, creating, filters, filter_born, filter_last,
                   ledger_last, poh_vars, column_vars, task_vars>>

\* The rest of Blockstore::do_open: the column handles, max_root, the legacy
\* cleanup and the highest primary index slot, on the cursor as it is now.
\* The history records the cursor the open leaves, whether it stored to it or
\* not, so that the position of the return is known.
OpenFinish ==
    /\ is_some(opening)
    /\ \E db \in {[unwrap(opening) EXCEPT !.rocks.oldest_slot = oldest_slot]} :
       \E out \in {IF ~(Rocks_columns \subseteq DOMAIN db.rocks.cf)
                    THEN [result |-> "Panic", disk |-> db.disk,
                          cf_descriptors |-> db.cf_descriptors, blockstore |-> None]
                    ELSE Blockstore_opened(db)} :
       \E cursor \in {IF is_some(out.blockstore)
                       THEN unwrap(out.blockstore).db.oldest_slot
                       ELSE oldest_slot} :
          /\ disk' = out.disk
          /\ store' = out.blockstore
          /\ oldest_slot' = cursor
          /\ cursor_hist' = Append(cursor_hist, cursor)
          /\ open_last' = Some([unwrap(open_last) EXCEPT
                                   !.result = out.result,
                                   !.finished = Some(Len(cursor_hist'))])
    /\ opening' = None
    /\ UNCHANGED <<creating, filters, filter_born, filter_last, ledger, ledger_last,
                   poh_vars, column_vars, task_vars>>

\* The engine starts a compaction of a column that carries the factory.
CompactionCreateLoadSlot ==
    /\ \/ is_some(opening) /\ FactoryInstalled(unwrap(opening).rocks)
       \/ is_some(store) /\ FactoryInstalled(unwrap(store).db)
    /\ CreateLoadSlot

\* The retention policy, which holds the open store, moves the threshold.
PolicySetOldestSlot ==
    /\ is_some(store)
    /\ Rocks_is_primary_access(unwrap(store).db)
    /\ SetOldestSlot

\* The databases a store is opened on: none, a fresh one, an upgraded one.
RetentionDisks ==
    {d \in Disks :
        /\ d.root = {}
        /\ ~d.address_signatures_dummy
        /\ d.exists => d.cfs = {DEFAULT_COLUMN_NAME} \cup DescriptorColumns
        /\ \A i \in DOMAIN d.tsi : ~d.tsi[i].frozen}

RetentionInit ==
    /\ disk \in RetentionDisks
    /\ store = None
    /\ opening = None
    /\ open_last = None
    /\ ledger = [NoLedger EXCEPT !.exists = disk.exists]
    /\ ledger_last = None

RetentionNext ==
    \/ OpenBackend
    \/ OpenFinish
    \/ CompactionCreateLoadSlot
    \/ CreateLoadCleanSlot0
    \/ PolicySetOldestSlot
    \/ FilterKey

InitRetention == RetentionInit /\ PohIdle /\ FilterIdle /\ ColumnIdle
SpecRetention == InitRetention /\ [][RetentionNext]_vars

(***************************************************************************)
(* Typed access to a column: LedgerColumn over the rows of the             *)
(* TransactionStatusIndex column of an open store.  A row is the bytes the *)
(* engine holds under a key; the key of an index is its big-endian digits, *)
(* as for the root column.                                                 *)
(***************************************************************************)
\* A value the serializer rejects.
Oversized == [oversized |-> TRUE]
ColumnValues ==
    {TransactionStatusIndexMeta_default, [max_slot |-> MaxSlot, frozen |-> TRUE]}
ColumnIndexes == 0..MaxColumnIndex

\* C::serialize: the fields in their order, the flag as one byte.
C_serialize(value) ==
    IF "oversized" \in DOMAIN value
    THEN Err("Serialize")
    ELSE Ok(<<value.max_slot, IF value.frozen THEN 1 ELSE 0>>)

\* C::deserialize: bytes that are not the fields of a value are an error.
C_deserialize(bytes) ==
    IF Len(bytes) = 2 /\ bytes[2] \in {0, 1}
    THEN Ok([max_slot |-> bytes[1], frozen |-> bytes[2] = 1])
    ELSE Err("Serialize")

\* Stored bytes no value serializes to: cut short, or with a flag byte that
\* is no boolean.
UndecodableBytes == {<<0>>, <<0, 2>>}

\* Rocks::get_pinned_cf, put_cf, delete_cf.  fault: the engine reports an
\* I/O failure.
Rocks_get_pinned_cf(col, key, fault) ==
    IF fault
    THEN Err("RocksDb")
    ELSE Ok(IF key \in DOMAIN col THEN Some(col[key]) ELSE None)

Rocks_put_cf(col, key, value, fault) ==
    IF fault THEN Err("RocksDb") ELSE Ok(Put(col, key, value))

Rocks_delete_cf(col, key, fault) ==
    IF fault THEN Err("RocksDb") ELSE Ok(Remove(col, key))

\* LedgerColumn::get_raw
LedgerColumn_get_raw(col, key, fault) ==
    The({ IF ~got.ok
          THEN Err(got.err)
          ELSE IF got.val = None
          THEN Ok(None)
          ELSE The({ IF ~value.ok THEN Err(value.err) ELSE Ok(Some(value.val))
                     : value \in {C_deserialize(unwrap(got.val))} })
          : got \in {Rocks_get_pinned_cf(col, key, fault)} })

\* LedgerColumn::get
LedgerColumn_get(col, index, fault) ==
    LedgerColumn_get_raw(col, Root_key(index), fault)

\* What a writing call returns and the rows it leaves.
Written(result, col) == [result |-> result, column |-> col]

\* LedgerColumn::put
LedgerColumn_put(col, index, value, fault) ==
    The({ IF ~serialized_value.ok
          THEN Written(Err(serialized_value.err), col)
          ELSE The({ IF ~result.ok
                     THEN Written(Err(result.err), col)
                     ELSE Written(Ok(None), result.val)
                     : result \in {Rocks_put_cf(col, Root_key(index),
                                                serialized_value.val, fault)} })
          : serialized_value \in {C_serialize(value)} })

\* LedgerColumn::delete
LedgerColumn_delete(col, index, fault) ==
    The({ IF ~result.ok
          THEN Written(Err(result.err), col)
          ELSE Written(Ok(None), result.val)
          : result \in {Rocks_delete_cf(col, Root_key(index), fault)} })

\* Rocks::iterator_cf: the engine's iterator over the rows as they are now,
\* in the order of the mode.  It is no Result: a failure shows when the
\* iterator is advanced.
Rocks_iterator_cf(col, iterator_mode) ==
    The({ [i \in 1..Len(ordered) |-> <<ordered[i], col[ordered[i]]>>]
          : ordered \in {IF iterator_mode = "End"
                         THEN Reverse(Ascending(DOMAIN col))
                         ELSE Ascending(DOMAIN col)} })

\* LedgerColumn::iter: Ok of the engine's iterator under the closure.
LedgerColumn_iter(col, iterator_mode) == Ok(Rocks_iterator_cf(col, iterator_mode))

\* DBIterator::next: the next row, an error the engine reports, or the end.
DBIterator_next(iter, fault) ==
    IF fault
    THEN Some(Err("RocksDb"))
    ELSE IF iter = <<>> THEN None ELSE Some(Ok(iter[1]))

\* next() on what LedgerColumn::iter returned: the closure on the pair the
\* engine's iterator yields.
LedgerColumn_iter_next(iter, fault) ==
    The({ IF pair = None
          THEN [panic |-> FALSE, item |-> None, rest |-> <<>>]
          ELSE IF ~unwrap(pair).ok
          THEN \* pair.unwrap()
               [panic |-> TRUE, item |-> None, rest |-> <<>>]
          ELSE [panic |-> FALSE,
                item |-> Some(<<Root_index(unwrap(pair).val[1]), unwrap(pair).val[2]>>),
                rest |-> Tail(iter)]
          : pair \in {DBIterator_next(iter, fault)} })

RECURSIVE update_highest_primary_index_slot_loop(_, _, _)
\* The loop of Blockstore::update_highest_primary_index_slot over the
\* iterator.  fault_at: the step at which the engine reports an I/O failure,
\* 0 for none.
update_highest_primary_index_slot_loop(iter, fault_at, highest_primary_index_slot) ==
    The({ IF advanced.panic
          THEN [panic |-> TRUE, highest_primary_index_slot |-> None]
          ELSE IF advanced.item = None
          THEN [panic |-> FALSE,
                highest_primary_index_slot |-> highest_primary_index_slot]
          ELSE The({ IF ~meta.ok
                     THEN \* deserialize(&data).unwrap()
                          [panic |-> TRUE, highest_primary_index_slot |-> None]
                     ELSE update_highest_primary_index_slot_loop(
                              advanced.rest, fault_at - 1,
                              IF highest_primary_index_slot = None
                                 \/ unwrap(highest_primary_index_slot) < meta.val.max_slot
                              THEN Some(meta.val.max_slot)
                              ELSE highest_primary_index_slot)
                     : meta \in {C_deserialize(unwrap(advanced.item)[2])} })
          : advanced \in {LedgerColumn_iter_next(iter, fault_at = 1)} })

\* Blockstore::update_highest_primary_index_slot over the stored rows: what
\* it returns, the slot it caches and the cursor after it.
update_highest_primary_index_slot_rows(col, fault_at, cursor) ==
    The({ IF scanned.panic
          THEN [panic |-> TRUE, result |-> None,
                highest_primary_index_slot |-> None, oldest_slot |-> cursor]
          ELSE IF is_some(scanned.highest_primary_index_slot)
                  /\ unwrap(scanned.highest_primary_index_slot) # 0
          THEN [panic |-> FALSE, result |-> Ok(None),
                highest_primary_index_slot |-> scanned.highest_primary_index_slot,
                oldest_slot |-> cursor]
          ELSE [panic |-> FALSE, result |-> Ok(None),
                highest_primary_index_slot |-> None,
                oldest_slot |-> OldestSlot_set_clean_slot_0(cursor, TRUE)]
          : scanned \in {update_highest_primary_index_slot_loop(
                             LedgerColumn_iter(col, "Start").val, fault_at, None)} })

\* The record of a call on the column: the operation, its arguments, whether
\* the engine failed it, the bytes the column held under the key before,
\* whether the call panicked, and what it returned if it did not.
ColumnCall(op, index, value, fault, panic, result) ==
    [op |-> op, index |-> index, value |-> value, fault |-> fault, panic |-> panic,
     stored |-> IF is_some(index) /\ Root_key(unwrap(index)) \in DOMAIN column
                THEN Some(column[Root_key(unwrap(index))])
                ELSE None,
     result |-> result]

Get ==
    /\ \E index \in ColumnIndexes, fault \in BOOLEAN :
          column_last' = Some(ColumnCall("get", Some(index), None, fault, FALSE,
                                         LedgerColumn_get(column, index, fault)))
    /\ UNCHANGED <<column, iterator, poh_vars, filter_vars, store_vars, task_vars>>

GetRaw ==
    /\ \E index \in ColumnIndexes, fault \in BOOLEAN :
          column_last' = Some(ColumnCall("get_raw", Some(index), None, fault, FALSE,
                                         LedgerColumn_get_raw(column, Root_key(index),
                                                              fault)))
    /\ UNCHANGED <<column, iterator, poh_vars, filter_vars, store_vars, task_vars>>

PutValue ==
    /\ \E index \in ColumnIndexes, value \in ColumnValues \cup {Oversized},
          fault \in BOOLEAN :
       \E out \in {LedgerColumn_put(column, index, value, fault)} :
          /\ column' = out.column
          /\ column_last' = Some(ColumnCall("put", Some(index), Some(value), fault,
                                            FALSE, out.result))
    /\ UNCHANGED <<iterator, poh_vars, filter_vars, store_vars, task_vars>>

Delete ==
    /\ \E index \in ColumnIndexes, fault \in BOOLEAN :
       \E out \in {LedgerColumn_delete(column, index, fault)} :
          /\ column' = out.column
          /\ column_last' = Some(ColumnCall("delete", Some(index), None, fault,
                                            FALSE, out.result))
    /\ UNCHANGED <<iterator, poh_vars, filter_vars, store_vars, task_vars>>

\* LedgerColumn::iter(mode) is called; the iterator it returns is held.
Iter ==
    /\ iterator = None
    /\ \E iterator_mode \in {"Start", "End"} :
       \E out \in {LedgerColumn_iter(column, iterator_mode)} :
          /\ iterator' = Some(out.val)
          /\ column_last' = Some(ColumnCall("iter", None, None, FALSE, FALSE, Ok(None)))
    /\ UNCHANGED <<column, poh_vars, filter_vars, store_vars, task_vars>>

\* The iterator held is advanced by one; it is dropped at its end.
IterNext ==
    /\ is_some(iterator)
    /\ \E fault \in BOOLEAN :
       \E out \in {LedgerColumn_iter_next(unwrap(iterator), fault)} :
          /\ iterator' = IF out.panic \/ out.item = None THEN None ELSE Some(out.rest)
          /\ column_last' = Some(ColumnCall("next", None, None, fault, out.panic,
                                            IF out.panic THEN None ELSE Ok(out.item)))
    /\ UNCHANGED <<column, poh_vars, filter_vars, store_vars, task_vars>>

\* Blockstore::update_highest_primary_index_slot runs over the column, as at
\* the end of do_open.
UpdateHighestPrimaryIndexSlot ==
    /\ \E fault_at \in 0..(MaxColumnIndex + 2) :
       \E out \in {update_highest_primary_index_slot_rows(column, fault_at, oldest_slot)} :
          /\ oldest_slot' = out.oldest_slot
          /\ column_last' = Some(ColumnCall("update_highest_primary_index_slot",
                                            None, out.highest_primary_index_slot,
                                            fault_at # 0, out.panic, out.result))
    /\ UNCHANGED <<column, iterator, cursor_hist, creating, filters, filter_born,
                   filter_last, poh_vars, store_vars, task_vars>>

\* The rows the column may hold when the store is opened.
ColumnRows ==
    UNION {[D -> {C_serialize(value).val : value \in ColumnValues} \cup UndecodableBytes]
           : D \in SUBSET {Root_key(index) : index \in ColumnIndexes}}

ColumnInit ==
    /\ column \in ColumnRows
    /\ iterator = None
    /\ column_last = None

ColumnNext ==
    \/ Get
    \/ GetRaw
    \/ PutValue
    \/ Delete
    \/ Iter
    \/ IterNext
    \/ UpdateHighestPrimaryIndexSlot

InitColumn ==
    ColumnInit /\ PohIdle /\ FilterIdle /\ StoreIdle /\ task = None /\ progress = None
SpecColumn == InitColumn /\ [][ColumnNext]_vars

(***************************************************************************)
(* Compaction passes of the engine over the rows of a column that carries  *)
(* the filter factory: a pass has the factory create its filter and then   *)
(* hands the filter every row, in an order of the engine's choosing, while *)
(* the retention policy may move the cursor.                               *)
(***************************************************************************)
\* The state of a pass: the rows it met, the rows now, the rows it has yet
\* to visit, its filter, and the rows it has removed.
Pass(before, rows, todo, f, removed) ==
    [before |-> before, rows |-> rows, todo |-> todo, filter |-> f,
     removed |-> removed]

\* What the engine does with a row on the decision of the filter.
Compaction_apply(rows, key, decision) ==
    IF decision = "Remove" THEN rows \ {key} ELSE rows

\* A pass starts: PurgedSlotFilterFactory::create makes its filter.
CompactionStart ==
    /\ progress.todo = {}
    /\ Len(filters) < MaxFilters
    /\ filters' = Append(filters,
                     PurgedSlotFilterFactory_create(
                         OldestSlot_get(oldest_slot),
                         OldestSlot_get_clean_slot_0(oldest_slot)))
    /\ filter_born' = Append(filter_born, [slot_at |-> Now, clean_slot_0_at |-> Now])
    /\ progress' = Pass(progress.rows, progress.rows, progress.rows,
                        Len(filters) + 1, {})
    /\ UNCHANGED <<oldest_slot, cursor_hist, creating, filter_last, task,
                   poh_vars, store_vars, column_vars>>

\* The pass hands its filter one of the rows it has yet to visit.
CompactionFilterKey ==
    /\ \E key \in progress.todo :
       \E decision \in {PurgedSlotFilter_filter(filters[progress.filter], key)} :
          /\ filter_last' = Some([filter |-> progress.filter, key |-> key,
                                  decision |-> decision, at |-> Now])
          /\ progress' = Pass(progress.before,
                              Compaction_apply(progress.rows, key, decision),
                              progress.todo \ {key},
                              progress.filter,
                              progress.removed \cup (progress.rows \
                                  Compaction_apply(progress.rows, key, decision)))
    /\ UNCHANGED <<oldest_slot, cursor_hist, creating, filters, filter_born, task,
                   poh_vars, store_vars, column_vars>>

\* The values the cursor may hold when compaction starts.
Cursors == [slot : Slots, clean_slot_0 : BOOLEAN]

CompactionInit ==
    /\ oldest_slot \in Cursors
    /\ cursor_hist = <<oldest_slot>>
    /\ creating = None
    /\ filters = <<>>
    /\ filter_born = <<>>
    /\ filter_last = None
    \* the rows of the column: at most one to a slot, the decision of the
    \* filter reading nothing of a key but its slot
    /\ task \in {[keys |-> keys] :
                    keys \in {K \in SUBSET Keys(Slots) :
                                 /\ Cardinality(K) <= MaxRows
                                 /\ \A k1, k2 \in K :
                                        Column_slot(Column_index(k1)) =
                                            Column_slot(Column_index(k2)) => k1 = k2}}
    /\ progress = Pass(task.keys, task.keys, {}, 0, {})

CompactionNext == CompactionStart \/ CompactionFilterKey \/ SetOldestSlot

InitCompaction ==
    /\ CompactionInit /\ PohIdle /\ StoreIdle
    /\ column = <<>> /\ iterator = None /\ column_last = None
SpecCompaction == InitCompaction /\ [][CompactionNext]_vars

InitFilter == FilterInit /\ PohIdle /\ StoreIdle /\ ColumnIdle
InitFilterFn == FilterFnInit /\ PohIdle /\ StoreIdle /\ ColumnIdle
SpecFilter == InitFilter /\ [][FilterNext]_vars
SpecFilterFn == InitFilterFn /\ [][FilterFnNext]_vars
InitPoh == PohInit /\ FilterIdle /\ StoreIdle /\ ColumnIdle
SpecPoh == InitPoh /\ [][PohNext]_vars
InitStore == StoreInit /\ PohIdle /\ FilterIdle /\ ColumnIdle
SpecStore == InitStore /\ [][StoreNext]_vars


(***************************************************************************)
(* Properties of the sequencer.                                            *)
(***************************************************************************)
Self == unwrap(poh)
Pre == poh_last.pre
Calibrated == is_some(poh) /\ Self.hashes_per_tick # LOW_POWER_MODE
LowPower == is_some(poh) /\ Self.hashes_per_tick = LOW_POWER_MODE
Called(op) == poh_last # None /\ poh_last.op = op

TickEntries == {i \in 1..Len(poh_entries) : poh_entries[i].kind = "tick"}
RecordEntries == {i \in 1..Len(poh_entries) : poh_entries[i].kind = "record"}
Max(S) == CHOOSE x \in S : \A y \in S : y <= x
\* The index of the last tick entry before entry i, 0 when there is none.
PrevTick(i) == Max({j \in TickEntries : j < i} \cup {0})

RECURSIVE SumNumHashes(_, _)
\* The sum of num_hashes over the entries a..b of the log.
SumNumHashes(a, b) ==
    IF a > b THEN 0 ELSE poh_entries[b].entry.num_hashes + SumNumHashes(a, b - 1)

\* C1: in calibrated mode (hashes_per_tick = N > 1), the num_hashes of the
\* entries emitted after one tick entry (or since creation) up to and
\* including the next tick entry sum to exactly N.
C1_TickWindowSumsToN ==
    Calibrated =>
        \A i \in TickEntries :
            SumNumHashes(PrevTick(i) + 1, i) = Self.hashes_per_tick

\* Two tick entries were emitted, with a record entry between them.
C1_Witness ==
    /\ Calibrated
    /\ \E i, k \in TickEntries : \E j \in RecordEntries : i < j /\ j < k

\* C2: record(mixin) returns nothing iff remaining_hashes == 1 at the time
\* of the call; otherwise it returns an entry and remaining_hashes is one
\* less after the call than before.
C2_RecordRefusesIffOneRemains ==
    Called("record") =>
        /\ poh_status = "ok"
        /\ (poh_last.ret = None) <=> (Pre.remaining_hashes = 1)
        /\ is_some(poh_last.ret) =>
              Self.remaining_hashes = Pre.remaining_hashes - 1

\* A record() was refused after an earlier record() had returned an entry.
C2_Witness ==
    /\ Called("record")
    /\ poh_last.ret = None
    /\ RecordEntries # {}

\* C3: in low-power mode every tick() returns an entry and leaves
\* remaining_hashes at the low-power sentinel (the value of hashes_per_tick)
\* and num_hashes at 0.
C3_LowPowerTickAlwaysEmits ==
    (LowPower /\ Called("tick")) =>
        /\ poh_status = "ok"
        /\ is_some(poh_last.ret)
        /\ Self.remaining_hashes = LOW_POWER_MODE
        /\ Self.remaining_hashes = Self.hashes_per_tick
        /\ Self.num_hashes = 0

\* A low-power tick() called after hash() and record() calls, with one hash
\* remaining.
C3_Witness ==
    /\ LowPower
    /\ Called("tick")
    /\ Pre.remaining_hashes = 1
    /\ Pre.num_hashes > 0
    /\ RecordEntries # {}

\* C4: hash(max_iterations) in a state with remaining_hashes = r performs
\* d = min(r - 1, max_iterations) self-hashes, adds d to num_hashes, takes d
\* from remaining_hashes, leaves remaining_hashes >= 1 and tick_number as it
\* was, and returns true iff remaining_hashes == 1 after the call.
C4_HashAdvancesByMin ==
    Called("hash") =>
        LET d == Min(Pre.remaining_hashes - 1, poh_last.arg) IN
        /\ poh_status = "ok"
        /\ Self.hash = Pre.hash \o [i \in 1..d |-> 0]
        /\ Self.num_hashes = Pre.num_hashes + d
        /\ Self.remaining_hashes = Pre.remaining_hashes - d
        /\ Self.remaining_hashes >= 1
        /\ Self.tick_number = Pre.tick_number
        /\ Self.hashes_per_tick = Pre.hashes_per_tick
        /\ poh_last.ret <=> (Self.remaining_hashes = 1)

\* A hash() call that was cut short by remaining_hashes - 1 and returned true.
C4_Witness ==
    /\ Called("hash")
    /\ Pre.remaining_hashes > 1
    /\ poh_last.arg > Pre.remaining_hashes - 1
    /\ poh_last.ret = TRUE

C6_HashesPerTickAboveOne ==
    /\ is_some(poh) =>
          /\ Self.hashes_per_tick > 1
          /\ Self.hashes_per_tick = unwrap_or(poh_arg.hashes_per_tick, LOW_POWER_MODE)
    /\ poh_arg.hashes_per_tick \in {Some(0), Some(1)} =>
          poh = None /\ poh_status = "panicked"
    /\ poh_arg.hashes_per_tick = None =>
          is_some(poh) /\ Self.hashes_per_tick = LOW_POWER_MODE

\* A sequencer built with the smallest accepted hashes_per_tick, after
\* hash, record and tick calls.
C6_Witness ==
    /\ poh_arg.hashes_per_tick = Some(2)
    /\ is_some(poh)
    /\ TickEntries # {}
    /\ RecordEntries # {}
    /\ Self.num_hashes > 0


(***************************************************************************)
(* Properties of the compaction filter.                                    *)
(***************************************************************************)
LastFilter == filters[unwrap(filter_last).filter]
LastBorn == filter_born[unwrap(filter_last).filter]
LastSlot == unwrap(filter_last).key[2]
LastDecision == unwrap(filter_last).decision

\* C7: a key with embedded slot S is kept if S >= oldest_slot, kept if S == 0
\* and clean_slot_0 is false, and removed otherwise; with oldest_slot = 100,
\* slot 99 is removed, slot 100 kept, slot 0 kept when clean_slot_0 is false
\* and removed when it is true.
C7_RetentionRule ==
    is_some(filter_last) =>
        /\ LastSlot >= LastFilter.oldest_slot => LastDecision = "Keep"
        /\ (LastSlot = 0 /\ ~LastFilter.clean_slot_0) => LastDecision = "Keep"
        /\ (LastSlot < LastFilter.oldest_slot /\ (LastSlot # 0 \/ LastFilter.clean_slot_0))
              => LastDecision = "Remove"
        /\ LastFilter.oldest_slot = 100 =>
              /\ LastSlot = 99 => LastDecision = "Remove"
              /\ LastSlot = 100 => LastDecision = "Keep"
              /\ LastSlot = 0 =>
                    LastDecision = IF LastFilter.clean_slot_0 THEN "Remove" ELSE "Keep"

\* With oldest_slot = 100 and clean_slot_0 set, a key of slot 0 was removed.
C7_Witness ==
    /\ is_some(filter_last)
    /\ LastFilter.oldest_slot = 100
    /\ LastFilter.clean_slot_0
    /\ LastSlot = 0
    /\ LastDecision = "Remove"

\* The retention rule on a slot, a threshold and a flag.
Retention(slot, oldest, clean_slot_0) ==
    IF slot >= oldest \/ (slot = 0 /\ ~clean_slot_0) THEN "Keep" ELSE "Remove"

\* C8: a filter holds the cursor values loaded when the factory created it,
\* and every decision of the filter follows from those values, whatever has
\* been stored to the cursor since; a filter created after a store holds the
\* values stored.
C8_FilterDecidesOnSnapshot ==
    /\ cursor_hist[Now] = oldest_slot
    /\ \A f \in 1..Len(filters) :
          /\ filters[f].oldest_slot = cursor_hist[filter_born[f].slot_at].slot
          /\ filters[f].clean_slot_0 =
                cursor_hist[filter_born[f].clean_slot_0_at].clean_slot_0
    /\ is_some(filter_last) =>
          LastDecision = Retention(LastSlot,
                                   cursor_hist[LastBorn.slot_at].slot,
                                   cursor_hist[LastBorn.clean_slot_0_at].clean_slot_0)

\* A filter decided a key after a store that would have changed the
\* decision, while a filter created after that store holds the new values.
C8_Witness ==
    /\ is_some(filter_last)
    /\ unwrap(filter_last).at > LastBorn.clean_slot_0_at
    /\ LastDecision # Retention(LastSlot, oldest_slot.slot, oldest_slot.clean_slot_0)
    /\ \E g \in 1..Len(filters) :
          /\ filter_born[g].slot_at = Now
          /\ filters[g] # LastFilter

\* The instants of the creation of filter f: from the load of the slot
\* threshold to the load of the flag.
CreationInstants(f) == filter_born[f].slot_at .. filter_born[f].clean_slot_0_at

\* The shared cursor held the pair captured by filter f at instant i.
HeldAt(f, i) ==
    /\ cursor_hist[i].slot = filters[f].oldest_slot
    /\ cursor_hist[i].clean_slot_0 = filters[f].clean_slot_0

\* C38: the pair (oldest_slot, clean_slot_0) captured by a created filter is
\* a pair the shared cursor held at one instant during the creation, whatever
\* stores to the threshold and to the flag ran during the creation.
C38_FilterCapturesHeldPair ==
    \A f \in 1..Len(filters) : \E i \in CreationInstants(f) : HeldAt(f, i)

\* A filter was created while both the threshold and the flag were stored
\* to, and it holds a pair the cursor held during the creation.
C38_Witness ==
    \E f \in 1..Len(filters) :
        /\ \E i, j \in CreationInstants(f) :
              /\ cursor_hist[i].slot # cursor_hist[j].slot
              /\ cursor_hist[i].clean_slot_0 # cursor_hist[j].clean_slot_0
        /\ \E i \in CreationInstants(f) : HeldAt(f, i)

\* A filter holds a pair the cursor never held: the threshold from before
\* the stores and the flag from after them.
C38_WitnessTorn ==
    \E f \in 1..Len(filters) : \A i \in 1..Now : ~HeldAt(f, i)


(***************************************************************************)
(* Properties of the opening of the store.                                 *)
(***************************************************************************)
Opened == unwrap(open_last)
PrimaryModes == {"Primary", "PrimaryForMaintenance"}
DescriptorNames == {cf.name : cf \in Opened.cf_descriptors}
\* The names on disk before the open that the schema does not know.
UnknownOnDisk == Opened.before.cfs \ (DescriptorColumns \cup {DEFAULT_COLUMN_NAME})

\* C9: column families on disk that the schema does not know do not prevent
\* open().  With Primary and PrimaryForMaintenance access the columns opened
\* are the 19 known ones and every detected name that is neither known nor
\* "default", each of these with a 1 MiB write buffer and automatic
\* compaction disabled, and the open fails only on a failure of the engine
\* or the file system; with Secondary access exactly the known columns are
\* opened, and whether the open succeeds does not depend on unknown names.
C9_UnknownColumnsDoNotPreventOpen ==
    is_some(open_last) =>
        /\ Cardinality(DescriptorColumns) = 19
        /\ Opened.access_type \in PrimaryModes =>
              /\ DescriptorNames = DescriptorColumns \cup UnknownOnDisk
              /\ \A cf \in Opened.cf_descriptors :
                    cf.name \in UnknownOnDisk =>
                        /\ cf.options.write_buffer_size = 1048576
                        /\ cf.options.disable_auto_compactions
              /\ Opened.result = (IF Opened.fault THEN "Err" ELSE "Ok")
        /\ Opened.access_type = "Secondary" =>
              /\ DescriptorNames = DescriptorColumns
              /\ Opened.result =
                    (IF ~Opened.fault /\ Opened.before.exists
                           /\ DescriptorColumns \subseteq Opened.before.cfs
                     THEN "Ok" ELSE "Err")

\* A database holding a column of a newer schema was opened with Primary
\* access.
C9_Witness ==
    /\ is_some(open_last)
    /\ Opened.access_type = "Primary"
    /\ "newer_column" \in Opened.before.cfs
    /\ Opened.result = "Ok"
    /\ is_some(store)

\* A database holding unknown columns was opened with Secondary access.
C9_WitnessSecondary ==
    /\ is_some(open_last)
    /\ Opened.access_type = "Secondary"
    /\ UnknownOnDisk # {}
    /\ Opened.result = "Ok"

RootSlots == {Root_index(key) : key \in disk.root}

\* C10: after a successful open max_root is the greatest slot stored in the
\* root column, or 0 when the column is empty; open writes nothing to the
\* root column, so a brand-new ledger directory opens with max_root == 0 and
\* an empty root column.
C10_MaxRootAtOpen ==
    is_some(store) =>
        /\ Opened.result = "Ok"
        /\ disk.root = Opened.before.root
        /\ \A slot \in RootSlots : slot <= unwrap(store).max_root
        /\ IF RootSlots = {}
           THEN unwrap(store).max_root = 0
           ELSE unwrap(store).max_root \in RootSlots
        /\ ~Opened.before.exists =>
              unwrap(store).max_root = 0 /\ disk.root = {}

\* A store opened on a root column of several rows, the greatest not 0.
C10_Witness ==
    /\ is_some(store)
    /\ Cardinality(disk.root) >= 2
    /\ unwrap(store).max_root = MaxSlot

\* A store opened on a brand-new ledger directory.
C10_WitnessNew ==
    /\ is_some(store)
    /\ ~Opened.before.exists
    /\ disk.exists

(***************************************************************************)
(* Properties of the creation and destruction of a ledger.                 *)
(***************************************************************************)
LastCall == unwrap(ledger_last)
CalledLedger(op) == is_some(ledger_last) /\ LastCall.op = op

C12_SecondaryOpenMutatesNothing ==
    (is_some(open_last) /\ Opened.access_type = "Secondary") =>
        /\ disk = Opened.before
        /\ is_some(store) => unwrap(store).db.access_type = "Secondary"

\* A store was opened with Secondary access on a database that lacks the
\* TransactionStatusIndexMeta rows and holds the obsolete sentinel key and
\* the deprecated column: all that a primary open would change.
C12_Witness ==
    /\ is_some(open_last)
    /\ Opened.access_type = "Secondary"
    /\ is_some(store)
    /\ Opened.before.tsi = <<>>
    /\ Opened.before.address_signatures_dummy
    /\ DEPRECATED_PROGRAM_COSTS_COLUMN_NAME \in Opened.before.cfs

OpenRocks == unwrap(store).db
\* The columns of the open store: the column families opened from a
\* descriptor, known or not (the engine's "default" family is none of them).
OpenColumns == DOMAIN OpenRocks.cf \ {DEFAULT_COLUMN_NAME}
Filtered(cf_name) == OpenRocks.cf[cf_name].compaction_filter_factory
Periodic(cf_name) ==
    OpenRocks.cf[cf_name].periodic_compaction_seconds = 86400

\* C13: a purged-slot compaction filter is installed on a column, and the
\* periodic compaction of one day is enabled for it, iff the access is
\* Primary and the column is TransactionStatus, TransactionMemos or
\* AddressSignatures; with PrimaryForMaintenance and Secondary access
\* automatic compaction is disabled for the database and for every column,
\* and no filter is installed.
C13_CompactionOnlyForPrimaryFilterColumns ==
    is_some(store) =>
        /\ \A cf_name \in OpenColumns :
              LET eligible ==
                      /\ OpenRocks.access_type = "Primary"
                      /\ cf_name \in {"TransactionStatus", "TransactionMemos",
                                      "AddressSignatures"}
              IN  /\ Filtered(cf_name) <=> eligible
                  /\ Periodic(cf_name) <=> eligible
                  /\ ~eligible => OpenRocks.cf[cf_name].periodic_compaction_seconds = 0
        /\ OpenRocks.access_type # "Primary" =>
              /\ OpenRocks.db_options.disable_auto_compactions
              /\ \A cf_name \in OpenColumns :
                    /\ OpenRocks.cf[cf_name].disable_auto_compactions
                    /\ ~Filtered(cf_name)

\* A store open with PrimaryForMaintenance access on a database that holds
\* an unknown column and rows of the transaction status index.
C13_Witness ==
    /\ is_some(store)
    /\ OpenRocks.access_type = "PrimaryForMaintenance"
    /\ "newer_column" \in OpenColumns
    /\ Opened.before.tsi # <<>>
    /\ ~Filtered("TransactionStatus")

\* A store open with Primary access: the three columns carry the filter.
C13_WitnessPrimary ==
    /\ is_some(store)
    /\ OpenRocks.access_type = "Primary"
    /\ Filtered("TransactionStatus") /\ Periodic("AddressSignatures")
    /\ ~Filtered("Root")

\* C14: after a successful open with primary access (Primary or
\* PrimaryForMaintenance) both TransactionStatusIndexMeta rows, 0 and 1,
\* exist: a row that was there before the open is as it was, a row that was
\* missing holds the default value {max_slot: 0, frozen: false}; and the
\* obsolete sentinel key of the address-signatures column is absent.
C14_LegacyCleanupAtPrimaryOpen ==
    (is_some(store) /\ Opened.access_type \in PrimaryModes) =>
        /\ DOMAIN disk.tsi = {0, 1}
        /\ \A i \in {0, 1} :
              disk.tsi[i] = IF i \in DOMAIN Opened.before.tsi
                            THEN Opened.before.tsi[i]
                            ELSE [max_slot |-> 0, frozen |-> FALSE]
        /\ ~disk.address_signatures_dummy

\* A store was opened with primary access on a database that held row 1 only,
\* with a nonzero max_slot, and the sentinel key.
C14_Witness ==
    /\ is_some(store)
    /\ Opened.access_type \in PrimaryModes
    /\ DOMAIN Opened.before.tsi = {1}
    /\ Opened.before.tsi[1].max_slot > 0
    /\ Opened.before.address_signatures_dummy

OpenStore == unwrap(store)
\* The max_slot values of the TransactionStatusIndexMeta rows the open read.
MaxSlots == {disk.tsi[i].max_slot : i \in DOMAIN disk.tsi}
Cached == OpenStore.highest_primary_index_slot
CachedNonzero == is_some(Cached) /\ unwrap(Cached) # 0
CleanSlot0 == OpenStore.db.oldest_slot.clean_slot_0

\* C15: at open the highest primary index slot is the maximum max_slot over
\* all TransactionStatusIndexMeta rows.  If that maximum is nonzero the cached
\* slot is set to it and clean_slot_0 stays false, as it was; if there is no
\* row or the maximum is 0 the cache stays empty and clean_slot_0 is set to
\* true.  So exactly one of "the cached slot is nonzero" and "clean_slot_0
\* was set by this open" holds.
C15_HighestPrimaryIndexSlotAtOpen ==
    is_some(store) =>
        /\ IF MaxSlots # {} /\ Max(MaxSlots) # 0
           THEN Cached = Some(Max(MaxSlots)) /\ ~CleanSlot0
           ELSE Cached = None /\ CleanSlot0
        /\ CachedNonzero <=> ~CleanSlot0

\* A store was opened on two rows with different nonzero max_slot values, the
\* greater one in row 0.
C15_Witness ==
    /\ is_some(store)
    /\ DOMAIN disk.tsi = {0, 1}
    /\ disk.tsi[0].max_slot > disk.tsi[1].max_slot
    /\ disk.tsi[1].max_slot > 0
    /\ CachedNonzero

\* A store was opened with Secondary access on a database without rows.
C15_WitnessNoRow ==
    /\ is_some(store)
    /\ disk.tsi = <<>>
    /\ CleanSlot0

\* A Primary open that got past Rocks::open, and what the database held
\* before it.
PrimaryOpened == is_some(open_last) /\ Opened.access_type = "Primary" /\ Opened.result # "Err"
Upgraded(d) == \E i \in DOMAIN d.tsi : d.tsi[i].max_slot # 0
Slot0Keys == Keys({0})
CreatedAfterOpen(f) ==
    is_some(Opened.finished) /\ filter_born[f].slot_at >= unwrap(Opened.finished)

\* C16: a Primary open on a database whose transaction status index holds a
\* nonzero max_slot leaves every filter, created during the open or after it,
\* keeping every key of slot 0 whatever its oldest_slot; a Primary open on a
\* fresh database makes every filter created after the open has completed
\* remove the keys of slot 0 as soon as its oldest_slot is above 0.
C16_Slot0PreservationInvariant ==
    PrimaryOpened =>
        \A f \in 1..Len(filters) :
            /\ Upgraded(Opened.before) =>
                  \A key \in Slot0Keys : PurgedSlotFilter_filter(filters[f], key) = "Keep"
            /\ (~Upgraded(Opened.before) /\ CreatedAfterOpen(f) /\ filters[f].oldest_slot > 0) =>
                  \A key \in Slot0Keys : PurgedSlotFilter_filter(filters[f], key) = "Remove"

\* C16 witness: on a fresh database a filter created after the open, with its
\* threshold above 0, has removed a key of slot 0.
C16_Witness ==
    /\ PrimaryOpened /\ ~Upgraded(Opened.before)
    /\ is_some(filter_last)
    /\ CreatedAfterOpen(unwrap(filter_last).filter)
    /\ filters[unwrap(filter_last).filter].oldest_slot > 0
    /\ unwrap(filter_last).key \in Slot0Keys
    /\ unwrap(filter_last).decision = "Remove"

\* C16 witness: on an upgraded database a filter created while the open had
\* not returned has kept a key of slot 0 after the threshold moved above 0.
C16_WitnessUpgraded ==
    /\ PrimaryOpened /\ Upgraded(Opened.before)
    /\ is_some(Opened.finished)
    /\ \E f \in 1..Len(filters) : filter_born[f].slot_at < unwrap(Opened.finished)
    /\ is_some(filter_last)
    /\ filters[unwrap(filter_last).filter].oldest_slot > 0
    /\ unwrap(filter_last).key \in Slot0Keys
    /\ unwrap(filter_last).decision = "Keep"

\* C17: destroy(path) is idempotent: a destroy that meets no I/O failure
\* succeeds whether the directory existed or not and whether a database was
\* under it or not, leaves the directory existing with no database contents,
\* and a second destroy right after a successful one succeeds and changes
\* nothing.
C17_DestroyIdempotent ==
    (CalledLedger("destroy") /\ LastCall.fault = "none") =>
        /\ LastCall.result = "Ok"
        /\ ledger.exists
        /\ disk = EmptyDisk
        /\ LastCall.again => LastCall.unchanged

\* C17 witness: a second destroy in a row has succeeded on the path.
C17_Witness ==
    /\ CalledLedger("destroy")
    /\ LastCall.again
    /\ LastCall.fault = "none"
    /\ LastCall.result = "Ok"

\* C17 witness: a destroy has succeeded on a path that never held a ledger.
C17_WitnessNeverUsed ==
    /\ CalledLedger("destroy")
    /\ ~LastCall.again
    /\ ~LastCall.existed
    /\ LastCall.result = "Ok"
    /\ ledger.exists

\* The ticks a ledger of this genesis configuration has in slot 0.
GenesisTicks(genesis_config) ==
    create_ticks(genesis_config.ticks_per_slot,
                 unwrap_or(genesis_config.hashes_per_tick, 0),
                 GenesisConfig_hash(genesis_config))

\* C18: after create_new_ledger has returned a hash, slot 0 of the ledger at
\* the path holds ticks_per_slot tick entries and nothing else, chained from
\* the hash of the genesis configuration written to the path, and the
\* returned hash is the hash of the last of them.
C18_Slot0FilledWithTicks ==
    (CalledLedger("create_new_ledger") /\ LastCall.result = "Ok") =>
        /\ is_some(ledger.genesis)
        /\ disk.slot0 = GenesisTicks(unwrap(ledger.genesis))
        /\ Len(disk.slot0) = unwrap(ledger.genesis).ticks_per_slot
        /\ \A i \in 1..Len(disk.slot0) : disk.slot0[i].transactions = <<>>
        /\ disk.slot0 # <<>>
        /\ LastCall.hash = Some(disk.slot0[Len(disk.slot0)].hash)

\* C18 witness: create_new_ledger has returned the hash of the last of the
\* ticks it computed, over a path that held an earlier ledger.
C18_Witness ==
    /\ CalledLedger("create_new_ledger")
    /\ LastCall.result = "Ok"
    /\ LastCall.existed
    /\ Len(LastCall.entries) = MaxTicksPerSlot
    /\ LastCall.hash = Some(LastCall.entries[Len(LastCall.entries)].hash)

\* The last call on the column.
LastColumnCall == unwrap(column_last)
CalledColumn(ops) == is_some(column_last) /\ LastColumnCall.op \in ops
StoredUndecodable(c) == is_some(c.stored) /\ ~C_deserialize(unwrap(c.stored)).ok
Surfaced(c) == ~c.panic /\ ~c.result.ok

\* get, get_raw, put and delete: an I/O failure of the engine, stored bytes
\* that do not decode and a value that does not serialize come back as an
\* error; a key that is absent comes back as Ok(None).
KeyedCallSurfacesErrors(c) ==
    /\ c.op \in {"get", "get_raw"} =>
          /\ c.fault => Surfaced(c)
          /\ (~c.fault /\ StoredUndecodable(c)) => Surfaced(c)
          /\ (~c.fault /\ c.stored = None) => (~c.panic /\ c.result = Ok(None))
    /\ c.op = "put" =>
          ((c.fault \/ ~C_serialize(unwrap(c.value)).ok) => Surfaced(c))
    /\ c.op = "delete" => (c.fault => Surfaced(c))

\* iter: a failure the engine reports, at the creation of the iterator or
\* while the sequence is advanced, comes back as an error.
IterSurfacesErrors(c) ==
    c.op \in {"iter", "next"} => (c.fault => Surfaced(c))

\* C20: every typed column operation surfaces backend errors to its caller:
\* get, get_raw, put and delete return an error on an I/O failure and on a
\* value that fails to serialize or deserialize, iter does so when the
\* iterator is created and while the sequence it returned is advanced, and
\* an absent key yields Ok(None).
C20_ColumnOperationsSurfaceErrors ==
    is_some(column_last) =>
        /\ KeyedCallSurfacesErrors(LastColumnCall)
        /\ IterSurfacesErrors(LastColumnCall)

\* C20 witness: the engine has reported an I/O failure while an iterator over
\* a column that holds rows was advanced.
C20_Witness ==
    /\ CalledColumn({"next"})
    /\ LastColumnCall.fault
    /\ column # <<>>

\* C20 witness: a get of an absent key has returned Ok(None) and a get over
\* undecodable bytes an error.
C20_WitnessKeyed ==
    /\ CalledColumn({"get"})
    /\ ~LastColumnCall.fault
    /\ \/ LastColumnCall.stored = None /\ LastColumnCall.result = Ok(None)
       \/ StoredUndecodable(LastColumnCall) /\ ~LastColumnCall.result.ok

\* The part of C20 on get, get_raw, put and delete.
C20_KeyedCallsSurfaceErrors ==
    is_some(column_last) => KeyedCallSurfacesErrors(LastColumnCall)

\* The invariant violation of the store: a column of the schema has no
\* handle in the database the open got.
ColumnHandleMissing(cf_descriptors) ==
    ~(Rocks_columns \subseteq {cf.name : cf \in cf_descriptors})

\* The invariant violation of the sequencer: a call found or left
\* remaining_hashes below 1.
RemainingHashesUnderflow ==
    is_some(poh) /\ unwrap(poh).remaining_hashes < 1

\* C19: across open, create_new_ledger, the typed column operations and the
\* operations of a sequencer constructed with hashes_per_tick > 1, a panic
\* occurs only when a column handle is missing after a successful open of the
\* backend or when the sequencer's remaining_hashes underflows; an I/O
\* failure of the backend, undecodable stored bytes, empty inputs and absent
\* keys yield an error or an empty result.
C19_PanicsOnlyForInvariantViolations ==
    /\ (is_some(open_last) /\ Opened.result = "Panic") =>
           ColumnHandleMissing(Opened.cf_descriptors)
    /\ is_some(ledger_last) => LastCall.result # "Panic"
    /\ is_some(column_last) => ~LastColumnCall.panic
    /\ (poh_status = "panicked" /\ poh_last.op # "new") => RemainingHashesUnderflow

\* C19 witness: update_highest_primary_index_slot has met a row whose bytes
\* do not decode, with no I/O failure.
C19_Witness ==
    /\ CalledColumn({"update_highest_primary_index_slot"})
    /\ ~LastColumnCall.fault
    /\ \E key \in DOMAIN column : ~C_deserialize(column[key]).ok

\* C19 witness: create_new_ledger has been given ticks_per_slot = 0.
C19_WitnessNoTicks ==
    /\ CalledLedger("create_new_ledger")
    /\ unwrap(LastCall.genesis_config).ticks_per_slot = 0
    /\ LastCall.fault = "none"

\* C21: after a successful open in any access mode the lookup of the handle
\* of every column the store uses succeeds: the columns given descriptors,
\* the columns configure_compaction goes over and the typed columns of the
\* store are one set of 19, each has a handle in the open database, no open
\* panics on a missing handle, and the deprecated column is none of them.
C21_ColumnHandlesAfterOpen ==
    /\ DescriptorColumns = Rocks_columns
    /\ Rocks_columns = Blockstore_columns
    /\ Cardinality(Blockstore_columns) = 19
    /\ DEPRECATED_PROGRAM_COSTS_COLUMN_NAME \notin Blockstore_columns
    /\ is_some(open_last) => Opened.result # "Panic"
    /\ is_some(store) =>
          /\ Blockstore_columns \subseteq DOMAIN unwrap(store).db.cf
          /\ Blockstore_columns \subseteq {cf.name : cf \in Opened.cf_descriptors}
          /\ Blockstore_columns \subseteq disk.cfs

\* C21 witness: a store is open with primary access on a database that held
\* the deprecated column, which was dropped.
C21_Witness ==
    /\ is_some(store)
    /\ Opened.access_type \in {"Primary", "PrimaryForMaintenance"}
    /\ DEPRECATED_PROGRAM_COSTS_COLUMN_NAME \in Opened.before.cfs
    /\ DEPRECATED_PROGRAM_COSTS_COLUMN_NAME \notin DOMAIN unwrap(store).db.cf
    /\ Blockstore_columns \subseteq DOMAIN unwrap(store).db.cf

\* C21 witness: a store is open with Secondary access.
C21_WitnessSecondary ==
    /\ is_some(store)
    /\ Opened.access_type = "Secondary"
    /\ Blockstore_columns \subseteq DOMAIN unwrap(store).db.cf

\* The filter of the pass under way and the one of the pass before it.
PassFilter == filters[progress.filter]
SameSnapshotAsBefore == progress.filter > 1 /\ PassFilter = filters[progress.filter - 1]

\* C22: compaction under the retention rule is idempotent: a pass whose
\* filter holds the same snapshot as the pass before it removes no key, and
\* the rows that survive a pass are the rows it met less those its snapshot
\* condemns, whatever the order of the visits and wherever the cursor has
\* moved meanwhile.
C22_CompactionIdempotent ==
    progress.filter >= 1 =>
        /\ SameSnapshotAsBefore => progress.removed = {}
        /\ progress.todo = {} =>
              progress.rows =
                  {key \in progress.before :
                      \/ Column_slot(Column_index(key)) >= PassFilter.oldest_slot
                      \/ Column_slot(Column_index(key)) = 0 /\ ~PassFilter.clean_slot_0}
        /\ progress.rows = progress.before \ progress.removed

\* C22 witness: a second pass with the snapshot of the first has visited
\* every row the first left, the first having removed one, after the cursor
\* has moved.
C22_Witness ==
    /\ SameSnapshotAsBefore
    /\ progress.todo = {}
    /\ progress.rows # {}
    /\ progress.rows # task.keys
    /\ oldest_slot.slot > PassFilter.oldest_slot

\* The cursor has only moved forward: the slot has never decreased and the
\* flag has never gone from true back to false.
CursorOnlyForward ==
    \A i \in 1..Len(cursor_hist), j \in 1..Len(cursor_hist) :
        i < j =>
            /\ cursor_hist[i].slot <= cursor_hist[j].slot
            /\ cursor_hist[i].clean_slot_0 => cursor_hist[j].clean_slot_0

\* A filter created from the cursor as it is now.
CurrentFilter ==
    PurgedSlotFilter(OldestSlot_get(oldest_slot), OldestSlot_get_clean_slot_0(oldest_slot))

\* C23: staleness of the cursor is harmless: as long as the cursor has only
\* moved forward, no filter, however old its snapshot, removes a key that a
\* filter with the current values of the cursor would keep.
C23_StaleFilterRemovesNoLiveKey ==
    CursorOnlyForward =>
        \A f \in 1..Len(filters), key \in Keys(Slots) :
            PurgedSlotFilter_filter(filters[f], key) = "Remove" =>
                PurgedSlotFilter_filter(CurrentFilter, key) = "Remove"

\* C23 witness: a filter with a snapshot older than the cursor, which has
\* only moved forward, has kept a key that the current values condemn, and
\* removes another.
C23_Witness ==
    /\ CursorOnlyForward
    /\ is_some(filter_last)
    /\ filters[unwrap(filter_last).filter] # CurrentFilter
    /\ unwrap(filter_last).decision = "Keep"
    /\ PurgedSlotFilter_filter(CurrentFilter, unwrap(filter_last).key) = "Remove"
    /\ \E key \in Keys(Slots) :
          PurgedSlotFilter_filter(filters[unwrap(filter_last).filter], key) = "Remove"

\* C24: whenever hash() returns true the caller needs to tick() next: in
\* calibrated mode a hash() that returns true leaves one hash remaining, and
\* in a state with one hash remaining every record() returns nothing and
\* changes nothing, every hash() performs no hashing and returns true again,
\* and tick() returns an entry.
C24_HashTrueMeansTickNext ==
    Calibrated =>
        /\ (Called("hash") /\ poh_status = "ok" /\ poh_last.ret = TRUE) =>
               Self.remaining_hashes = 1
        /\ ((Called("hash") \/ Called("record") \/ Called("tick"))
               /\ Pre.remaining_hashes = 1) =>
               /\ poh_status = "ok"
               /\ Called("record") => (poh_last.ret = None /\ Self = Pre)
               /\ Called("hash") => (poh_last.ret = TRUE /\ Self = Pre)
               /\ Called("tick") => is_some(poh_last.ret)

\* C24 witness: after a hash() that could not hash because one hash remained
\* and returned true, the state still has one hash remaining.
C24_Witness ==
    /\ Calibrated
    /\ Called("hash")
    /\ poh_last.arg > 0
    /\ Pre.remaining_hashes = 1
    /\ Pre.num_hashes > 0
    /\ poh_last.ret = TRUE

\* C24 witness: the tick() called with one hash remaining has returned an
\* entry.
C24_WitnessTick ==
    /\ Calibrated
    /\ Called("tick")
    /\ Pre.remaining_hashes = 1
    /\ is_some(poh_last.ret)

(***************************************************************************)
(* Calibration of hashes_per_tick: compute_hashes_per_tick of              *)
(* entry/src/poh.rs and its caller, the genesis tool                       *)
(* (genesis/src/main.rs).  A Duration is a number of microseconds; the     *)
(* number of microseconds in a millisecond (1000) is scaled with the width *)
(* of u64.                                                                 *)
(***************************************************************************)
MicrosPerMilli == 2 ^ (Width - 2)
Durations == 0 .. U64Max

as_u64(n) == n % (2 ^ Width)
Duration_from_micros(micros) == micros
Duration_as_millis(duration) == duration \div MicrosPerMilli

Returned(v) == [panic |-> FALSE, val |-> Some(v)]
Panicked == [panic |-> TRUE, val |-> None]

\* start.elapsed() of the sample run: whatever the machine measures.
compute_hash_time(hashes_sample_size) == Durations

\* A multiplication of two u64 that overflows panics in a build with
\* overflow checks and wraps in a build without them.
compute_hashes_per_tick(duration, hashes_sample_size, elapsed, overflow_checks) ==
    LET elapsed_ms == as_u64(Duration_as_millis(elapsed))
        product == as_u64(Duration_as_millis(duration)) * hashes_sample_size
    IN  IF product > U64Max /\ overflow_checks THEN Panicked
        ELSE IF elapsed_ms = 0 THEN Panicked
        ELSE Returned(as_u64(product) \div elapsed_ms)

\* main reading --target-tick-duration into poh_config (the default comes
\* from PohConfig::default(), defined outside the repository: any Duration).
Genesis_target_tick_duration(arg, default_target_tick_duration) ==
    IF arg = None THEN default_target_tick_duration
    ELSE Duration_from_micros(unwrap(arg))

GenesisPohConfig ==
    /\ progress.poh_config = None
    /\ progress' = [progress EXCEPT !.poh_config = Some(
           [target_tick_duration |->
                Genesis_target_tick_duration(task.target_tick_duration,
                                             task.default_target_tick_duration),
            hashes_per_tick |-> None])]
    /\ UNCHANGED <<task, poh_vars, filter_vars, store_vars, column_vars>>

\* --hashes-per-tick auto with the Development cluster type.
GenesisAutoHashesPerTick ==
    /\ is_some(progress.poh_config)
    /\ progress.calibration = None
    /\ \E elapsed \in compute_hash_time(task.hashes_sample_size) :
       \E out \in {compute_hashes_per_tick(
                       unwrap(progress.poh_config).target_tick_duration,
                       task.hashes_sample_size, elapsed, task.overflow_checks)} :
           progress' =
               [poh_config |->
                    IF out.panic THEN progress.poh_config
                    ELSE Some([unwrap(progress.poh_config) EXCEPT
                                   !.hashes_per_tick = Some(unwrap(out.val) \div 2)]),
                calibration |-> Some(
                    [duration |-> unwrap(progress.poh_config).target_tick_duration,
                     hashes_sample_size |-> task.hashes_sample_size,
                     elapsed |-> elapsed,
                     out |-> out])]
    /\ UNCHANGED <<task, poh_vars, filter_vars, store_vars, column_vars>>

GenesisInit ==
    /\ task \in [target_tick_duration : {None} \cup {Some(n) : n \in 0 .. U64Max},
                 default_target_tick_duration : Durations,
                 hashes_sample_size : 0 .. U64Max,
                 overflow_checks : BOOLEAN]
    /\ progress = [poh_config |-> None, calibration |-> None]

GenesisNext == GenesisPohConfig \/ GenesisAutoHashesPerTick

InitGenesis ==
    /\ GenesisInit /\ PohIdle /\ FilterIdle /\ StoreIdle
    /\ column = <<>> /\ iterator = None /\ column_last = None
SpecGenesis == InitGenesis /\ [][GenesisNext]_vars

(***************************************************************************)
(* Properties of the calibration.                                          *)
(***************************************************************************)
Calibration == unwrap(progress.calibration)
CalibrationTargetMs == Calibration.duration \div MicrosPerMilli
CalibrationElapsedMs == Calibration.elapsed \div MicrosPerMilli

\* C25: for every target duration, every sample size and every measured
\* elapsed time, compute_hashes_per_tick returns the linear scaling
\* target_ms * sample_size / elapsed_ms, computed on whole milliseconds
\* without wrap-around.
C25_LinearScaling ==
    is_some(progress.calibration) =>
        /\ ~Calibration.out.panic
        /\ CalibrationElapsedMs # 0
        /\ unwrap(Calibration.out.val) =
               (CalibrationTargetMs * Calibration.hashes_sample_size)
                   \div CalibrationElapsedMs

\* A call that returned the linear scaling of a non-zero product.
C25_Witness ==
    /\ is_some(progress.calibration)
    /\ ~Calibration.out.panic
    /\ CalibrationElapsedMs > 1
    /\ CalibrationTargetMs * Calibration.hashes_sample_size > CalibrationElapsedMs
    /\ unwrap(Calibration.out.val) =
           (CalibrationTargetMs * Calibration.hashes_sample_size)
               \div CalibrationElapsedMs

\* The sample run measured less than one millisecond.
C25_WitnessZeroElapsed ==
    /\ is_some(progress.calibration)
    /\ CalibrationElapsedMs = 0
    /\ Calibration.out.panic

\* The product exceeds u64 in a build without overflow checks.
C25_WitnessWrapped ==
    /\ is_some(progress.calibration)
    /\ ~Calibration.out.panic
    /\ CalibrationTargetMs * Calibration.hashes_sample_size > U64Max
    /\ unwrap(Calibration.out.val) #
           (CalibrationTargetMs * Calibration.hashes_sample_size)
               \div CalibrationElapsedMs

PohConfigOf == unwrap(progress.poh_config)
Millis(n) == n * MicrosPerMilli

\* C30: the value n of --target-tick-duration is in milliseconds: it
\* configures a PoH target tick duration of n milliseconds, and this is the
\* duration compute_hashes_per_tick is calibrated against in "auto" mode.
C30_TargetTickDurationInMillis ==
    (is_some(progress.poh_config) /\ is_some(task.target_tick_duration)) =>
        /\ PohConfigOf.target_tick_duration = Millis(unwrap(task.target_tick_duration))
        /\ is_some(progress.calibration) =>
               Calibration.duration = Millis(unwrap(task.target_tick_duration))

\* A non-zero value was passed and the calibration ran against the
\* configured duration.
C30_Witness ==
    /\ is_some(progress.poh_config)
    /\ is_some(task.target_tick_duration)
    /\ unwrap(task.target_tick_duration) > 0
    /\ is_some(progress.calibration)
    /\ Calibration.duration = PohConfigOf.target_tick_duration

\* The value n is taken as n microseconds: a value below one millisecond's
\* worth calibrates against a target of 0 ms and yields 0 hashes per tick.
C30_WitnessMicros ==
    /\ is_some(progress.calibration)
    /\ is_some(task.target_tick_duration)
    /\ unwrap(task.target_tick_duration) > 0
    /\ Calibration.duration = unwrap(task.target_tick_duration)
    /\ ~Calibration.out.panic
    /\ PohConfigOf.hashes_per_tick = Some(0)

(***************************************************************************)
(* The deprecated column at open.                                          *)
(***************************************************************************)
PrimaryOpen ==
    /\ is_some(open_last)
    /\ Opened.access_type \in {"Primary", "PrimaryForMaintenance"}
    /\ Opened.result = "Ok"

Ports == 0 .. MaxPort
PortRanges == Ports \X Ports

\* range.0..range.1 and its len()
Range(range) == {p \in Ports : range[1] <= p /\ p < range[2]}
Range_len(range) == IF range[1] < range[2] THEN range[2] - range[1] ELSE 0

\* rng().random_range(range): any port of the range; it panics on an empty
\* range, which is the empty set of outcomes here.
random_range(range) == Range(range)

\* range.cycle().skip(skipped).take(range.len()): the skipped elements are
\* counted from the start of the range, round and round.
CandidatePorts(range, skipped) ==
    [i \in 1 .. Range_len(range) |->
        range[1] + ((skipped + i - 1) % Range_len(range))]

\* sockets::bind_common_with_config: a UDP socket and a TCP listener on the
\* port, dropped again by the caller.
bind_common_with_config(port, free) ==
    IF port \in free THEN Ok(port) ELSE Err("AddrInUse")

PortsOut(kind, result, probed) == [kind |-> kind, result |-> result, probed |-> probed]

\* The while loop of find_available_ports_in_range: i is the position of
\* the peekable iterator, Len(result) is num.
RECURSIVE find_loop(_, _, _, _, _, _)
find_loop(next_port_to_try, i, N, free, result, probed) ==
    IF Len(result) >= N THEN PortsOut("Ok", result, probed)
    \* next_port_to_try.next().unwrap() on the exhausted iterator
    ELSE IF i > Len(next_port_to_try) THEN PortsOut("Panic", <<>>, probed)
    ELSE IF bind_common_with_config(next_port_to_try[i], free).ok
    THEN find_loop(next_port_to_try, i + 1, N, free,
                   Append(result, next_port_to_try[i]),
                   Append(probed, next_port_to_try[i]))
    \* next_port_to_try.peek().is_none()
    ELSE IF i = Len(next_port_to_try)
    THEN PortsOut("Err", <<>>, Append(probed, next_port_to_try[i]))
    ELSE find_loop(next_port_to_try, i + 1, N, free, result,
                   Append(probed, next_port_to_try[i]))

\* find_available_ports_in_range::<N>(ip_addr, range); random is the outcome
\* of random_range, None when it panicked.
find_available_ports_in_range(N, range, free, random) ==
    IF random = None THEN PortsOut("Panic", <<>>, <<>>)
    ELSE find_loop(CandidatePorts(range, unwrap(random)), 1, N, free, <<>>, <<>>)

\* find_available_port_in_range(ip_addr, range)
find_available_port_in_range(range, free, random) ==
    find_available_ports_in_range(1, range, free, random)

RandomOutcomes(range) ==
    IF random_range(range) = {} THEN {None}
    ELSE {Some(random) : random \in random_range(range)}

PortsCall(fn, N, random, out) == [fn |-> fn, N |-> N, random |-> random, out |-> out]

FindAvailablePortInRange ==
    /\ progress.call = None
    /\ \E random \in RandomOutcomes(task.range) :
          progress' = [call |-> Some(PortsCall("find_available_port_in_range", 1, random,
                           find_available_port_in_range(task.range, task.free, random)))]
    /\ UNCHANGED <<task, poh_vars, filter_vars, store_vars, column_vars>>

FindAvailablePortsInRange ==
    /\ progress.call = None
    /\ \E random \in RandomOutcomes(task.range) :
          progress' = [call |-> Some(PortsCall("find_available_ports_in_range", task.N, random,
                           find_available_ports_in_range(task.N, task.range, task.free, random)))]
    /\ UNCHANGED <<task, poh_vars, filter_vars, store_vars, column_vars>>

PortsInit ==
    /\ task \in [range : PortRanges, free : SUBSET Ports, N : 1 .. MaxPortCount]
    /\ progress = [call |-> None]

PortsNext == FindAvailablePortInRange \/ FindAvailablePortsInRange

InitPorts ==
    /\ PortsInit /\ PohIdle /\ FilterIdle /\ StoreIdle
    /\ column = <<>> /\ iterator = None /\ column_last = None
SpecPorts == InitPorts /\ [][PortsNext]_vars

(***************************************************************************)
(* Properties of the port search.                                          *)
(***************************************************************************)
LastPortsCall == unwrap(progress.call)
NoDuplicates(s) == \A i, j \in DOMAIN s : s[i] = s[j] => i = j
Elements(s) == {s[i] : i \in DOMAIN s}

\* C27: the ports returned are ports of the range that could be bound when
\* probed; every port of the range is probed at most once per call, so the
\* ports returned are pairwise distinct; and when no port of the range can be
\* bound the call returns an error.
C27_ReturnsOnlyBindablePortsOfRange ==
    is_some(progress.call) =>
        /\ LastPortsCall.out.kind = "Ok" =>
              /\ Len(LastPortsCall.out.result) = LastPortsCall.N
              /\ Elements(LastPortsCall.out.result) \subseteq Range(task.range) \cap task.free
              /\ NoDuplicates(LastPortsCall.out.result)
        /\ NoDuplicates(LastPortsCall.out.probed)
        /\ Elements(LastPortsCall.out.probed) \subseteq Range(task.range)
        /\ (Range(task.range) \cap task.free = {}) => LastPortsCall.out.kind = "Err"

\* The two cases of the test: a one-port range whose port is free returns
\* that port, and one whose port is in use returns an error.
C27_Witness ==
    /\ is_some(progress.call)
    /\ LastPortsCall.fn = "find_available_port_in_range"
    /\ task.range[2] = task.range[1] + 1
    /\ \/ task.range[1] \in task.free /\ LastPortsCall.out.kind = "Ok"
            /\ LastPortsCall.out.result = <<task.range[1]>>
       \/ task.range[1] \notin task.free /\ LastPortsCall.out.kind = "Err"

\* Several ports found after a port in use was skipped.
C27_WitnessSeveral ==
    /\ is_some(progress.call)
    /\ LastPortsCall.out.kind = "Ok"
    /\ Len(LastPortsCall.out.result) > 1
    /\ Len(LastPortsCall.out.probed) > Len(LastPortsCall.out.result)

\* An empty range: there is no port to bind and no error is returned.
C27_WitnessEmptyRange ==
    /\ is_some(progress.call)
    /\ LastPortsCall.fn = "find_available_port_in_range"
    /\ Range(task.range) = {}
    /\ LastPortsCall.out.kind = "Panic"

\* C28: the candidate iterator is never exhausted when the loop asks for the
\* next port: for every N, every range and every pattern of bind successes
\* and failures the call returns N ports or an error, and never panics.
C28_NeverPanics ==
    is_some(progress.call) =>
        \/ LastPortsCall.out.kind = "Ok" /\ Len(LastPortsCall.out.result) = LastPortsCall.N
        \/ LastPortsCall.out.kind = "Err"

\* The last candidate was bound with fewer than N ports found: the loop asks
\* the exhausted iterator for one more.
C28_Witness ==
    /\ is_some(progress.call)
    /\ is_some(LastPortsCall.random)
    /\ LastPortsCall.out.kind = "Panic"
    /\ Len(LastPortsCall.out.probed) = Range_len(task.range)
    /\ LastPortsCall.out.probed[Len(LastPortsCall.out.probed)] \in task.free
    /\ Cardinality(Range(task.range) \cap task.free) < LastPortsCall.N

\* A call that found its N ports.
C28_WitnessOk ==
    /\ is_some(progress.call)
    /\ LastPortsCall.fn = "find_available_ports_in_range"
    /\ LastPortsCall.out.kind = "Ok"
    /\ Len(LastPortsCall.out.result) = LastPortsCall.N

(***************************************************************************)
(* parse_port_range of net-utils/src/lib.rs.  A &str is a sequence of      *)
(* characters; a u16 is scaled to 0 .. MaxPort, so that "12" overflows.    *)
(***************************************************************************)
Digits == <<"0", "1", "2">>
Chars == {Digits[i] : i \in DOMAIN Digits} \cup {"-", "+", "x"}
Strs == UNION {[1 .. n -> Chars] : n \in 0 .. MaxInputLen}

\* str::split('-'): the pieces between the dashes, empty ones included.
RECURSIVE str_split(_, _)
str_split(s, piece) ==
    IF s = <<>> THEN <<piece>>
    ELSE IF Head(s) = "-" THEN <<piece>> \o str_split(Tail(s), <<>>)
    ELSE str_split(Tail(s), Append(piece, Head(s)))

digit_value(c) == CHOOSE v \in 0 .. Len(Digits) - 1 : Digits[v + 1] = c
is_digit(c) == \E i \in DOMAIN Digits : Digits[i] = c

\* The digits of u16::from_str, most significant first, with its check of
\* every multiplication and addition.
RECURSIVE from_str_digits(_, _)
from_str_digits(s, acc) ==
    IF s = <<>> THEN Ok(acc)
    ELSE IF ~is_digit(Head(s)) THEN Err("InvalidDigit")
    ELSE IF acc * 10 + digit_value(Head(s)) > MaxPort THEN Err("PosOverflow")
    ELSE from_str_digits(Tail(s), acc * 10 + digit_value(Head(s)))

\* str::parse::<u16>: an optional "+" and at least one digit.
u16_from_str(s) ==
    IF s = <<>> THEN Err("Empty")
    ELSE IF Head(s) = "+"
    THEN IF Tail(s) = <<>> THEN Err("InvalidDigit") ELSE from_str_digits(Tail(s), 0)
    ELSE from_str_digits(s, 0)

\* Mutant: a range of equal ports is refused.
parse_port_range_strict(port_range) ==
    LET ports == str_split(port_range, <<>>) IN
    IF Len(ports) # 2
    THEN Err(<<"Expected range format: port1-port2">>)
    ELSE
    LET start_port == u16_from_str(ports[1])
        end_port == u16_from_str(ports[2])
    IN  IF ~start_port.ok THEN Err(<<"Error parsing start port: ", ports[1]>>)
        ELSE IF ~end_port.ok THEN Err(<<"Error parsing end port: ", ports[2]>>)
        ELSE IF end_port.val <= start_port.val
        THEN Err(<<"End port is less than start port", ports[2], ports[1]>>)
        ELSE Ok(<<start_port.val, end_port.val>>)

parse_port_range(port_range) ==
    LET ports == str_split(port_range, <<>>) IN
    IF Len(ports) # 2
    THEN Err(<<"Expected range format: port1-port2">>)
    ELSE
    LET start_port == u16_from_str(ports[1])
        end_port == u16_from_str(ports[2])
    IN  IF ~start_port.ok THEN Err(<<"Error parsing start port: ", ports[1]>>)
        ELSE IF ~end_port.ok THEN Err(<<"Error parsing end port: ", ports[2]>>)
        ELSE IF end_port.val < start_port.val
        THEN Err(<<"End port is less than start port", ports[2], ports[1]>>)
        ELSE Ok(<<start_port.val, end_port.val>>)

ParsePortRange ==
    /\ progress.parsed = None
    /\ progress' = [parsed |-> Some(parse_port_range(task.port_range))]
    /\ UNCHANGED <<task, poh_vars, filter_vars, store_vars, column_vars>>

ParseInit ==
    /\ task \in [port_range : Strs]
    /\ progress = [parsed |-> None]

ParseNext == ParsePortRange

InitParse ==
    /\ ParseInit /\ PohIdle /\ FilterIdle /\ StoreIdle
    /\ column = <<>> /\ iterator = None /\ column_last = None
SpecParse == InitParse /\ [][ParseNext]_vars

(***************************************************************************)
(* Properties of parse_port_range.                                         *)
(***************************************************************************)
Parsed == unwrap(progress.parsed)
Dashes == {i \in DOMAIN task.port_range : task.port_range[i] = "-"}
TheDash == CHOOSE i \in Dashes : TRUE
\* The text before and after the only dash.
StartText == SubSeq(task.port_range, 1, TheDash - 1)
EndText == SubSeq(task.port_range, TheDash + 1, Len(task.port_range))
IsPort(text) == u16_from_str(text).ok
PortOf(text) == u16_from_str(text).val

\* C29: parse_port_range returns Ok((start, end)) exactly when the input
\* splits on "-" into exactly two parts that both parse as 16-bit ports with
\* end >= start; otherwise it returns an error, the first that applies of:
\* wrong number of parts, unparsable start port, unparsable end port, end
\* port less than start port.
C29_ParsePortRange ==
    is_some(progress.parsed) =>
        IF Cardinality(Dashes) # 1
        THEN Parsed = Err(<<"Expected range format: port1-port2">>)
        ELSE IF ~IsPort(StartText)
        THEN Parsed = Err(<<"Error parsing start port: ", StartText>>)
        ELSE IF ~IsPort(EndText)
        THEN Parsed = Err(<<"Error parsing end port: ", EndText>>)
        ELSE IF PortOf(EndText) < PortOf(StartText)
        THEN Parsed = Err(<<"End port is less than start port", EndText, StartText>>)
        ELSE Parsed = Ok(<<PortOf(StartText), PortOf(EndText)>>)

\* A range of two equal ports was parsed.
C29_Witness ==
    /\ is_some(progress.parsed)
    /\ Parsed.ok
    /\ Parsed.val[1] = Parsed.val[2]
    /\ Parsed.val[1] > 0

\* Both ports fail to parse: the start port is the one reported.
C29_WitnessPrecedence ==
    /\ is_some(progress.parsed)
    /\ Cardinality(Dashes) = 1
    /\ ~IsPort(StartText) /\ ~IsPort(EndText)
    /\ ~Parsed.ok
    /\ Parsed.err[1] = "Error parsing start port: "

\* The cases of the test: "1-", "1-2", "2-1" and an input with two dashes.
C29_WitnessTest ==
    /\ is_some(progress.parsed)
    /\ \/ task.port_range = <<"1", "-">>
            /\ Parsed = Err(<<"Error parsing end port: ", <<>>>>)
       \/ task.port_range = <<"1", "-", "2">> /\ Parsed = Ok(<<1, 2>>)

(***************************************************************************)
(* Perf sampling: PerfSamplingStatus::should_sample of                     *)
(* ledger/src/blockstore_metrics.rs, called by several threads on one      *)
(* status.  Every access of an atomic is a step of its own; the clock is   *)
(* timestamp(), in milliseconds, and never goes back.  The 1000            *)
(* milliseconds of a second are scaled with the width of u64.              *)
(***************************************************************************)
MillisPerSec == 2 ^ (Width - 2)
Duration_from_secs(secs) == secs * MillisPerSec * MicrosPerMilli
PERF_SAMPLING_MIN_DURATION == Duration_from_secs(1)

Threads == 1 .. NumThreads
ThreadIdle(ret) == [pc |-> "idle", current_time_ms |-> 0, old_time_ms |-> 0, ret |-> ret]

\* Mutant: the last sample time is stored whatever it holds.
AtomicU64_store_unconditionally(cell, current, new, spurious) ==
    [ok |-> TRUE, cell |-> new]

\* AtomicU64::compare_exchange_weak(current, new, Relaxed, Relaxed); it may
\* fail spuriously.
AtomicU64_compare_exchange_weak(cell, current, new, spurious) ==
    IF cell = current /\ ~spurious
    THEN [ok |-> TRUE, cell |-> new]
    ELSE [ok |-> FALSE, cell |-> cell]

\* A call returns: the locals of the thread are gone.
PerfReturn(thread, ret) == [progress EXCEPT !.threads[thread] = ThreadIdle(ret)]

\* should_sample up to the fetch_add on op_count.
ShouldSampleCount(thread) ==
    /\ progress.threads[thread].pc = "idle"
    /\ progress' =
         IF task.sample_count_interval = 0
         THEN PerfReturn(thread, "interval is 0")
         ELSE IF progress.op_count < task.sample_count_interval
         THEN [PerfReturn(thread, "count") EXCEPT !.op_count = progress.op_count + 1]
         ELSE [progress EXCEPT !.op_count = progress.op_count + 1,
                               !.threads[thread].pc = "counted",
                               !.threads[thread].ret = "running"]
    /\ UNCHANGED <<task, poh_vars, filter_vars, store_vars, column_vars>>

\* self.op_count.store(0, Relaxed)
ShouldSampleResetCount(thread) ==
    /\ progress.threads[thread].pc = "counted"
    /\ progress' = [progress EXCEPT !.op_count = 0, !.threads[thread].pc = "reset"]
    /\ UNCHANGED <<task, poh_vars, filter_vars, store_vars, column_vars>>

\* let current_time_ms = timestamp()
ShouldSampleTimestamp(thread) ==
    /\ progress.threads[thread].pc = "reset"
    /\ progress' = [progress EXCEPT !.threads[thread].pc = "timed",
                                    !.threads[thread].current_time_ms = progress.clock]
    /\ UNCHANGED <<task, poh_vars, filter_vars, store_vars, column_vars>>

\* The load of last_sample_time_ms and the test of the time elapsed.
ShouldSampleLoad(thread) ==
    /\ progress.threads[thread].pc = "timed"
    /\ LET old_time_ms == progress.last_sample_time_ms IN
       progress' =
         IF old_time_ms + as_u64(Duration_as_millis(PERF_SAMPLING_MIN_DURATION))
                > progress.threads[thread].current_time_ms
         THEN PerfReturn(thread, "time")
         ELSE [progress EXCEPT !.threads[thread].pc = "loaded",
                               !.threads[thread].old_time_ms = old_time_ms]
    /\ UNCHANGED <<task, poh_vars, filter_vars, store_vars, column_vars>>

\* The compare_exchange_weak on last_sample_time_ms and the return.
ShouldSampleCompareExchange(thread) ==
    /\ progress.threads[thread].pc = "loaded"
    /\ \E spurious \in BOOLEAN :
       \E out \in {AtomicU64_compare_exchange_weak(
                       progress.last_sample_time_ms,
                       progress.threads[thread].old_time_ms,
                       progress.threads[thread].current_time_ms, spurious)} :
          progress' =
            [PerfReturn(thread, IF out.ok THEN "sampled"
                                ELSE IF spurious THEN "spurious" ELSE "changed")
                EXCEPT !.last_sample_time_ms = out.cell,
                       !.samples = IF out.ok
                                   THEN Append(progress.samples,
                                          [thread |-> thread,
                                           old_time_ms |-> progress.threads[thread].old_time_ms,
                                           time_ms |-> progress.threads[thread].current_time_ms])
                                   ELSE progress.samples]
    /\ UNCHANGED <<task, poh_vars, filter_vars, store_vars, column_vars>>

\* Time passes.
ClockAdvance ==
    /\ progress.clock < MaxClock
    /\ progress' = [progress EXCEPT !.clock = progress.clock + 1]
    /\ UNCHANGED <<task, poh_vars, filter_vars, store_vars, column_vars>>

\* PerfSamplingStatus::default() and the operations' sample interval.
PerfInit ==
    /\ task \in [sample_count_interval : 0 .. MaxSampleInterval]
    /\ progress = [op_count |-> 0, last_sample_time_ms |-> 0, clock |-> 0,
                   threads |-> [thread \in Threads |-> ThreadIdle("none")],
                   samples |-> <<>>]

PerfNext ==
    \/ ClockAdvance
    \/ \E thread \in Threads :
          \/ ShouldSampleCount(thread)
          \/ ShouldSampleResetCount(thread)
          \/ ShouldSampleTimestamp(thread)
          \/ ShouldSampleLoad(thread)
          \/ ShouldSampleCompareExchange(thread)

InitPerf ==
    /\ PerfInit /\ PohIdle /\ FilterIdle /\ StoreIdle
    /\ column = <<>> /\ iterator = None /\ column_last = None
SpecPerf == InitPerf /\ [][PerfNext]_vars

(***************************************************************************)
(* Properties of perf sampling.                                            *)
(***************************************************************************)
Samples == progress.samples

\* C31: under any interleaving of should_sample calls on one status, with a
\* clock that never goes back, at most one call succeeds per stored
\* last-sample time, any two successful calls have timestamps at least the
\* minimum duration (one second) apart, and with a sample interval of 0 no
\* call succeeds.
C31_PerfSamplingRateLimited ==
    /\ \A i, j \in DOMAIN Samples :
          i # j =>
             /\ Samples[i].old_time_ms # Samples[j].old_time_ms
             /\ \/ Samples[i].time_ms - Samples[j].time_ms >= MillisPerSec
                \/ Samples[j].time_ms - Samples[i].time_ms >= MillisPerSec
    /\ task.sample_count_interval = 0 => Samples = <<>>

\* Two threads have sampled, and a third call that had loaded the time
\* before found it changed and skipped.
C31_Witness ==
    /\ Len(Samples) >= 2
    /\ Samples[1].thread # Samples[2].thread
    /\ \E thread \in Threads : progress.threads[thread].ret = "changed"

\* With an interval of 0 calls have returned.
C31_WitnessIntervalZero ==
    /\ task.sample_count_interval = 0
    /\ \A thread \in Threads : progress.threads[thread].ret = "interval is 0"

(***************************************************************************)
(* Genesis loading of the validator: load_genesis of                       *)
(* blockchain/src/validator.rs.  The ledger directory holds a genesis      *)
(* configuration or none that can be loaded.                               *)
(***************************************************************************)
MAX_LEADER_SCHEDULE_EPOCH_OFFSET == 3

EpochSchedules ==
    [leader_schedule_slot_offset : 0 .. MaxLeaderScheduleSlotOffset,
     slots_per_epoch : 0 .. MaxSlotsPerEpoch]
ValidatorGenesisConfigs ==
    [ticks_per_slot : 0 .. MaxTicksPerSlot, epoch_schedule : EpochSchedules]

\* GenesisConfig::hash: the hash of the content.
ValidatorGenesisConfig_hash(genesis_config) ==
    <<genesis_config.ticks_per_slot,
      genesis_config.epoch_schedule.leader_schedule_slot_offset,
      genesis_config.epoch_schedule.slots_per_epoch>>

\* open_genesis_config(ledger_path, max_genesis_archive_unpacked_size)
open_genesis_config(stored) ==
    IF stored = None THEN Err(<<"OpenGenesisConfig">>) ELSE Ok(unwrap(stored))

\* u64::div_ceil
div_ceil(a, b) == (a + b - 1) \div b

LoadOut(kind, val) == [kind |-> kind, val |-> val]

\* load_genesis(config, ledger_path)
load_genesis(expected_genesis_hash, stored) ==
    LET opened == open_genesis_config(stored) IN
    IF ~opened.ok THEN LoadOut("Err", opened.err)
    ELSE
    LET genesis_config == opened.val
        leader_schedule_slot_offset ==
            genesis_config.epoch_schedule.leader_schedule_slot_offset
        slots_per_epoch == genesis_config.epoch_schedule.slots_per_epoch
    IN  \* div_ceil divides by slots_per_epoch
        IF slots_per_epoch = 0 THEN LoadOut("Panic", <<>>)
        \* assert!(leader_epoch_offset <= MAX_LEADER_SCHEDULE_EPOCH_OFFSET)
        ELSE IF div_ceil(leader_schedule_slot_offset, slots_per_epoch)
                    > MAX_LEADER_SCHEDULE_EPOCH_OFFSET
        THEN LoadOut("Panic", <<>>)
        ELSE
        LET genesis_hash == ValidatorGenesisConfig_hash(genesis_config) IN
        IF is_some(expected_genesis_hash) /\ genesis_hash # unwrap(expected_genesis_hash)
        THEN LoadOut("Err", <<"GenesisHashMismatch", genesis_hash,
                              unwrap(expected_genesis_hash)>>)
        ELSE LoadOut("Ok", <<genesis_config>>)

LoadGenesis ==
    /\ progress.loaded = None
    /\ progress' = [loaded |-> Some(load_genesis(task.expected_genesis_hash, task.stored))]
    /\ UNCHANGED <<task, poh_vars, filter_vars, store_vars, column_vars>>

LoadGenesisInit ==
    /\ task \in [stored : {None} \cup {Some(g) : g \in ValidatorGenesisConfigs},
                 expected_genesis_hash :
                     {None} \cup {Some(ValidatorGenesisConfig_hash(g)) :
                                     g \in ValidatorGenesisConfigs}]
    /\ progress = [loaded |-> None]

LoadGenesisNext == LoadGenesis

InitLoadGenesis ==
    /\ LoadGenesisInit /\ PohIdle /\ FilterIdle /\ StoreIdle
    /\ column = <<>> /\ iterator = None /\ column_last = None
SpecLoadGenesis == InitLoadGenesis /\ [][LoadGenesisNext]_vars

(***************************************************************************)
(* Properties of genesis loading.                                          *)
(***************************************************************************)
Loaded == unwrap(progress.loaded)
StoredGenesis == unwrap(task.stored)
ExpectedDiffers ==
    /\ is_some(task.expected_genesis_hash)
    /\ unwrap(task.expected_genesis_hash) # ValidatorGenesisConfig_hash(StoredGenesis)

\* C32: when a genesis configuration is loaded, load_genesis returns
\* GenesisHashMismatch(actual, expected) if and only if an expected hash is
\* configured and differs from the hash of the configuration; with no
\* expected hash, or an equal one, it returns the configuration.
C32_GenesisHashRequired ==
    (is_some(progress.loaded) /\ is_some(task.stored)) =>
        IF ExpectedDiffers
        THEN Loaded = LoadOut("Err", <<"GenesisHashMismatch",
                                       ValidatorGenesisConfig_hash(StoredGenesis),
                                       unwrap(task.expected_genesis_hash)>>)
        ELSE Loaded = LoadOut("Ok", <<StoredGenesis>>)

\* A mismatch was returned.
C32_Witness ==
    /\ is_some(progress.loaded) /\ is_some(task.stored)
    /\ ExpectedDiffers
    /\ Loaded.kind = "Err"
    /\ Loaded.val[1] = "GenesisHashMismatch"

\* The configured hash is the hash of the configuration, which is returned.
C32_WitnessEqual ==
    /\ is_some(progress.loaded) /\ is_some(task.stored)
    /\ is_some(task.expected_genesis_hash)
    /\ ~ExpectedDiffers
    /\ Loaded = LoadOut("Ok", <<StoredGenesis>>)

\* The epoch schedule of the configuration fails the assertion: no result.
C32_WitnessPanic ==
    /\ is_some(progress.loaded) /\ is_some(task.stored)
    /\ StoredGenesis.epoch_schedule.slots_per_epoch > 0
    /\ Loaded.kind = "Panic"

(***************************************************************************)
(* Invariants of the sequencer.                                            *)
(***************************************************************************)
\* C33: in calibrated mode, between calls, 1 <= remaining_hashes <=
\* hashes_per_tick under any sequence of hash, record and tick; the
\* assertion in hash() never fires and no subtraction on remaining_hashes
\* underflows (no call panics).
C33_RemainingHashesInRange ==
    Calibrated =>
        /\ 1 <= Self.remaining_hashes
        /\ Self.remaining_hashes <= Self.hashes_per_tick
        /\ poh_status = "ok"

\* A hash() has brought remaining_hashes down to 1 after a tick entry and a
\* record entry.
C33_Witness ==
    /\ Calibrated
    /\ Called("hash")
    /\ Pre.remaining_hashes > 1
    /\ Self.remaining_hashes = 1
    /\ TickEntries # {}
    /\ RecordEntries # {}

\* The entries emitted since the last tick entry, or since creation.
SinceLastTick == SumNumHashes(Max(TickEntries \cup {0}) + 1, Len(poh_entries))
RecordSinceLastTick == \E i \in RecordEntries : i > Max(TickEntries \cup {0})

\* C34: in every sequencer state num_hashes + remaining_hashes <=
\* hashes_per_tick, with equality exactly when no record() entry has been
\* emitted since the last tick entry (or since creation); the num_hashes of
\* the entries emitted since the last tick entry plus num_hashes plus
\* remaining_hashes equals hashes_per_tick.
C34_HashesAccountedFor ==
    is_some(poh) =>
        /\ Self.num_hashes + Self.remaining_hashes <= Self.hashes_per_tick
        /\ (Self.num_hashes + Self.remaining_hashes = Self.hashes_per_tick)
               <=> ~RecordSinceLastTick
        /\ SinceLastTick + Self.num_hashes + Self.remaining_hashes
               = Self.hashes_per_tick

\* Hashes are pending after two record entries that followed a tick entry.
C34_Witness ==
    /\ is_some(poh)
    /\ TickEntries # {}
    /\ Cardinality({i \in RecordEntries : i > Max(TickEntries \cup {0})}) >= 2
    /\ Self.num_hashes > 0
    /\ SinceLastTick > 2

Untouched ==
    /\ Self.hash = Pre.hash
    /\ Self.num_hashes = Pre.num_hashes
    /\ Self.remaining_hashes = Pre.remaining_hashes
    /\ Self.tick_number = Pre.tick_number

\* C36: a record() that returns nothing, a hash(0), and a hash(k) called
\* with remaining_hashes == 1 each leave hash, num_hashes, remaining_hashes
\* and tick_number exactly as they were.
C36_RefusedAndEmptyCallsChangeNothing ==
    /\ (Called("record") /\ poh_last.ret = None) => Untouched
    /\ (Called("hash") /\ (poh_last.arg = 0 \/ Pre.remaining_hashes = 1)) => Untouched

\* A hash(k), k > 0, was called with one hash remaining and a hash count
\* pending.
C36_Witness ==
    /\ Called("hash")
    /\ poh_last.arg > 0
    /\ Pre.remaining_hashes = 1
    /\ Pre.num_hashes > 0
    /\ Untouched

\* A record() was refused with hashes counted since the last entry.
C36_WitnessRecord ==
    /\ Called("record")
    /\ poh_last.ret = None
    /\ Pre.num_hashes > 0
    /\ Untouched

(***************************************************************************)
(* The producer of ticks.  The owner of a calibrated sequencer calls       *)
(* hash, record and tick in any order, and then either produces: it calls  *)
(* hash(k), k >= 1, again and again and tick() whenever hash returned      *)
(* true, with record() calls in between; or it calls tick() again and      *)
(* again.  progress holds what the owner is doing, the remaining_hashes    *)
(* and the number of tick entries it started from, and the calls of tick   *)
(* it has made since.                                                      *)
(***************************************************************************)
Producer(mode, start, ticks, calls) ==
    [mode |-> mode, start |-> start, ticks |-> ticks, calls |-> calls]

\* Calls in any order, before the producer starts.
FreeCall ==
    /\ progress.mode = "free"
    /\ poh_status = "ok"
    /\ Len(unwrap(poh).hash) < MaxFreeChain
    /\ \/ \E max_num_hashes \in HashArgs :
             ApplyOutcome(Poh_hash(unwrap(poh), max_num_hashes), "hash")
       \/ \E mixin \in Mixins :
             ApplyOutcome(Poh_record(unwrap(poh), mixin), "record")
       \/ ApplyOutcome(Poh_tick(unwrap(poh)), "tick")
    /\ UNCHANGED <<poh_last, task_vars>>

StartProducing ==
    /\ progress.mode = "free"
    /\ poh_status = "ok"
    /\ progress' = Producer("hash", unwrap(poh).remaining_hashes,
                            Len(SelectSeq(poh_entries, LAMBDA e : e.kind = "tick")), 0)
    /\ UNCHANGED <<task, poh_vars, filter_vars, store_vars, column_vars>>

StartTicking ==
    /\ progress.mode = "free"
    /\ poh_status = "ok"
    /\ progress' = Producer("ticking", unwrap(poh).remaining_hashes,
                            Len(SelectSeq(poh_entries, LAMBDA e : e.kind = "tick")), 0)
    /\ UNCHANGED <<task, poh_vars, filter_vars, store_vars, column_vars>>

\* if poh.hash(k) { ... }
ProducerHash ==
    /\ progress.mode = "hash"
    /\ poh_status = "ok"
    /\ \E max_num_hashes \in HashArgs \ {0} :
       \E out \in {Poh_hash(unwrap(poh), max_num_hashes)} :
          /\ ApplyOutcome(out, "hash")
          /\ progress' = [progress EXCEPT
                             !.mode = IF ~out.panic /\ out.ret THEN "tick" ELSE "hash"]
    /\ UNCHANGED <<poh_last, task>>

\* ... { poh.tick() }
ProducerTick ==
    /\ progress.mode = "tick"
    /\ poh_status = "ok"
    /\ ApplyOutcome(Poh_tick(unwrap(poh)), "tick")
    /\ progress' = [progress EXCEPT !.mode = "hash", !.calls = progress.calls + 1]
    /\ UNCHANGED <<poh_last, task>>

\* A record() between two calls of the producer.
ProducerRecord ==
    /\ progress.mode \in {"hash", "tick"}
    /\ poh_status = "ok"
    /\ \E mixin \in Mixins :
          ApplyOutcome(Poh_record(unwrap(poh), mixin), "record")
    /\ UNCHANGED <<poh_last, task_vars>>

\* One more tick() of a run of ticks, which ends with the entry.
RunTick ==
    /\ progress.mode = "ticking"
    /\ poh_status = "ok"
    /\ \E out \in {Poh_tick(unwrap(poh))} :
          /\ ApplyOutcome(out, "tick")
          /\ progress' = [progress EXCEPT
                             !.calls = progress.calls + 1,
                             !.mode = IF is_some(out.ret) THEN "ticked" ELSE "ticking"]
    /\ UNCHANGED <<poh_last, task>>

ProducerCall == ProducerHash \/ ProducerTick

ProducerInit ==
    /\ \E hashes_per_tick \in {Some(n) : n \in 2 .. MaxHashesPerTick} :
          LET out == Poh_new_with_slot_info(SeedHash, hashes_per_tick, 0) IN
          /\ poh = out.poh
          /\ poh_status = IF out.panic THEN "panicked" ELSE "ok"
          /\ poh_arg = [hashes_per_tick |-> hashes_per_tick, tick_number |-> 0]
          /\ poh_last = Call("new", None, out, None)
          /\ poh_entries = <<>>
    /\ task = None
    /\ progress = Producer("free", 0, 0, 0)

ProducerNext ==
    \/ FreeCall
    \/ StartProducing
    \/ StartTicking
    \/ ProducerHash
    \/ ProducerTick
    \/ ProducerRecord
    \/ RunTick

InitProducer ==
    /\ ProducerInit /\ FilterIdle /\ StoreIdle
    /\ column = <<>> /\ iterator = None /\ column_last = None
\* The producer keeps calling as long as a call changes the sequencer or
\* what the producer does next; nothing makes the other callers call.
SpecProducer ==
    /\ InitProducer /\ [][ProducerNext]_vars
    /\ WF_<<poh, progress>>(ProducerCall)
    /\ WF_<<poh, progress>>(RunTick)

(***************************************************************************)
(* Properties of the producer.                                             *)
(***************************************************************************)
NumTickEntries == Cardinality(TickEntries)
\* The chain has room for the hashes up to the next tick entry.
Room ==
    /\ Calibrated /\ poh_status = "ok"
    /\ Len(Self.hash) + Self.remaining_hashes <= MaxChain

\* From every state the producer eventually obtains a tick entry.
ProducerObtainsTick ==
    \A n \in 0 .. MaxChain :
        (progress.mode \in {"hash", "tick"} /\ Room /\ NumTickEntries = n)
            ~> (NumTickEntries > n)

\* A run of ticks gets its entry, on the remaining_hashes-th call and on no
\* call before it, hence within hashes_per_tick calls.
RunOfTicksEnds ==
    (progress.mode = "ticking" /\ Room) ~> (progress.mode = "ticked")
RunOfTicksEndsOnTime ==
    /\ progress.mode = "ticking" =>
          /\ progress.calls < progress.start
          /\ NumTickEntries = progress.ticks
    /\ progress.mode = "ticked" =>
          /\ progress.calls = progress.start
          /\ progress.calls <= Self.hashes_per_tick
          /\ NumTickEntries = progress.ticks + 1
          /\ poh_entries[Len(poh_entries)].kind = "tick"

\* C37: in calibrated mode tick production cannot stall: from any reachable
\* state a producer that keeps calling hash(k), k >= 1, and tick() whenever
\* hash returned true, with record() calls interleaved arbitrarily,
\* eventually obtains a tick entry; and a run of consecutive tick() calls
\* yields an entry on exactly the remaining_hashes-th call, within
\* hashes_per_tick calls.
C37_TickProductionCannotStall ==
    /\ ProducerObtainsTick
    /\ RunOfTicksEnds
    /\ []RunOfTicksEndsOnTime

\* The producer, started with hashes pending, obtained a tick entry by its
\* tick() after record entries.
C37_Witness ==
    /\ progress.mode = "hash"
    /\ progress.start > 1
    /\ progress.calls > 0
    /\ NumTickEntries > progress.ticks
    /\ RecordEntries # {}

\* A run of more than one tick() has ended with its entry.
C37_WitnessRun ==
    /\ progress.mode = "ticked"
    /\ progress.calls > 1
    /\ progress.calls = progress.start

(***************************************************************************)
(* SlotMeta's optional fields: serde_compat (blockstore_meta.rs) writes an *)
(* Option<u64> as one u64 and reads it back.  The u64 the serializer is    *)
(* handed is the serialized form; a deserializer that fails to yield a u64 *)
(* propagates its error and is not part of a round trip.                   *)
(***************************************************************************)
U64s == 0..U64Max
OptionU64s == {None} \cup {Some(v) : v \in U64s}

\* serialize with None written as 0.
serde_compat_serialize_none_as_zero(val) == unwrap_or(val, 0)

serde_compat_serialize(val) == unwrap_or(val, U64Max)

serde_compat_deserialize(val) == Ok(IF val # U64Max THEN Some(val) ELSE None)

\* The fields of SlotMetaBase carried through serde_compat.
CompatFields == {"last_index", "parent_slot"}

SerializeSlotMeta ==
    /\ progress.serialized = None
    /\ progress' = [progress EXCEPT !.serialized =
                       Some([f \in CompatFields |-> serde_compat_serialize(task[f])])]
    /\ UNCHANGED <<task, poh_vars, filter_vars, store_vars, column_vars>>

DeserializeSlotMeta ==
    /\ is_some(progress.serialized)
    /\ progress.deserialized = None
    /\ progress' = [progress EXCEPT !.deserialized =
                       Some([f \in CompatFields |->
                                serde_compat_deserialize(unwrap(progress.serialized)[f])])]
    /\ UNCHANGED <<task, poh_vars, filter_vars, store_vars, column_vars>>

SlotMetaInit ==
    /\ task \in [CompatFields -> OptionU64s]
    /\ progress = [serialized |-> None, deserialized |-> None]

SlotMetaNext == SerializeSlotMeta \/ DeserializeSlotMeta

InitSlotMeta ==
    /\ SlotMetaInit /\ PohIdle /\ FilterIdle /\ StoreIdle
    /\ column = <<>> /\ iterator = None /\ column_last = None
SpecSlotMeta == InitSlotMeta /\ [][SlotMetaNext]_vars

(***************************************************************************)
(* Properties of serde_compat.                                             *)
(***************************************************************************)
Serialized(f) == unwrap(progress.serialized)[f]
Deserialized(f) == unwrap(progress.deserialized)[f]

\* None is stored as u64::MAX.
NoneStoredAsMax ==
    \A f \in CompatFields : task[f] = None => Serialized(f) = U64Max

\* C39 as stated: for every Option<u64> value v of last_index and
\* parent_slot, deserializing the serialized form of v yields v, and None is
\* stored as u64::MAX.
C39_OptionRoundTrips ==
    is_some(progress.deserialized) =>
        /\ NoneStoredAsMax
        /\ \A f \in CompatFields : Deserialized(f) = Ok(task[f])

\* C39, amended: for every Option<u64> value v other than Some(u64::MAX),
\* deserializing the serialized form of v yields v, with None stored as
\* u64::MAX; Some(u64::MAX) is stored as u64::MAX as well and deserializes
\* as None.
C39_OptionRoundTripsBelowMax ==
    is_some(progress.deserialized) =>
        /\ NoneStoredAsMax
        /\ \A f \in CompatFields :
              Deserialized(f) = Ok(IF task[f] = Some(U64Max) THEN None ELSE task[f])

\* A SlotMeta with one field absent and the other present went through the
\* round trip unchanged.
C39_Witness ==
    /\ is_some(progress.deserialized)
    /\ task["last_index"] = None
    /\ is_some(task["parent_slot"])
    /\ \A f \in CompatFields : Deserialized(f) = Ok(task[f])

\* Some(u64::MAX) came back as None.
C39_WitnessMax ==
    /\ is_some(progress.deserialized)
    /\ task["parent_slot"] = Some(U64Max)
    /\ Deserialized("parent_slot") = Ok(None)

=============================================================================
